---- MODULE Spec2Model ----
(***************************************************************************)
(* Model of the fitness-dashboard collection pipeline                      *)
(* (src/workflows/collect_data.py): normalisation of the raw records of    *)
(* the three sources, merge_activities, deduplicate, the aggregators       *)
(* aggregate_weekly_tss, calc_ytd and build_heatmap, process_wellness, the *)
(* request operations of the adapters (also those of                       *)
(* src/connectors/intervals_icu.py and                                     *)
(* src/fitness-dashboard/connectors/concept2.py) and the run of main.      *)
(*                                                                         *)
(* Python strings that the code compares with < (dates, week labels) are   *)
(* sequences of character codes, so that the comparison is the lexical one *)
(* the code performs.  Strings that are only tested for equality (ids,     *)
(* types, sources) are TLA+ strings.                                       *)
(***************************************************************************)
EXTENDS Integers, Sequences, FiniteSets, TLC

(***************************************************************************)
(* Bounds of the model.                                                    *)
(***************************************************************************)
MaxPrimary == 2
MaxSecondary == 2
MaxTertiary == 2
MaxActs == 2
MaxDays == 3
MaxWellness == 3
MaxAttempts == 4
MaxUploads == 3

(***************************************************************************)
(* Python values.                                                          *)
(***************************************************************************)
\* None (or an absent key) in an integer-valued raw field.
Null == -1
\* None in a string-valued field of a normalised activity.
NoneStr == "<None>"
\* The None that process_concept2_activity returns instead of an activity.
NoneAct == [none |-> TRUE]

IsNone(x) == DOMAIN x = {"none"}

\* Character codes (ord) of the characters the model's strings are made of.
OrdDash == 45
OrdZero == 48
OrdW == 87

\* The string 'Unknown'.
StrUnknown == <<85, 110, 107, 110, 111, 119, 110>>

RECURSIVE StrLess(_, _)
\* Python's s < t on strings: lexicographic by code point, a proper prefix
\* is smaller.
StrLess(s, t) ==
  IF t = <<>> THEN FALSE
  ELSE IF s = <<>> THEN TRUE
  ELSE IF Head(s) /= Head(t) THEN Head(s) < Head(t)
  ELSE StrLess(Tail(s), Tail(t))

\* s[:n]
Take(s, n) == SubSeq(s, 1, IF Len(s) < n THEN Len(s) ELSE n)

\* s.startswith(p)
StartsWith(s, p) == Len(p) <= Len(s) /\ SubSeq(s, 1, Len(p)) = p

RECURSIVE Digits(_)
\* str(n) for n >= 0, as character codes.
Digits(n) ==
  IF n < 10 THEN <<OrdZero + n>>
  ELSE Append(Digits(n \div 10), OrdZero + (n % 10))

RECURSIVE Pad(_, _)
\* f'{n:0wd}': the decimal digits of n, zero-padded on the left to width w.
Pad(n, w) ==
  LET d == Digits(n)
  IN  IF Len(d) >= w THEN d ELSE <<OrdZero>> \o Pad(n, w - 1)

IsDigit(c) == c >= OrdZero /\ c <= OrdZero + 9

RECURSIVE ParseInt(_)
\* int(s) for a string of digits.
ParseInt(s) ==
  IF s = <<>> THEN 0
  ELSE ParseInt(SubSeq(s, 1, Len(s) - 1)) * 10 + (s[Len(s)] - OrdZero)

(***************************************************************************)
(* The calendar (Python's datetime, proleptic Gregorian).                  *)
(***************************************************************************)
IsLeap(y) == (y % 4 = 0) /\ ((y % 100 /= 0) \/ (y % 400 = 0))

DaysInMonth(y, m) ==
  IF m = 2 THEN (IF IsLeap(y) THEN 29 ELSE 28)
  ELSE IF m \in {4, 6, 9, 11} THEN 30 ELSE 31

RECURSIVE DaysBeforeMonth(_, _)
DaysBeforeMonth(y, m) ==
  IF m = 1 THEN 0 ELSE DaysBeforeMonth(y, m - 1) + DaysInMonth(y, m - 1)

DaysBeforeYear(y) ==
  (y - 1) * 365 + ((y - 1) \div 4) - ((y - 1) \div 100) + ((y - 1) \div 400)

\* date.toordinal(): 0001-01-01 is day 1.
Ymd2Ord(dt) == DaysBeforeYear(dt.y) + DaysBeforeMonth(dt.y, dt.m) + dt.d

\* The day before dt.
PrevDay(dt) ==
  IF dt.d > 1 THEN [dt EXCEPT !.d = dt.d - 1]
  ELSE IF dt.m > 1 THEN [y |-> dt.y, m |-> dt.m - 1, d |-> DaysInMonth(dt.y, dt.m - 1)]
  ELSE [y |-> dt.y - 1, m |-> 12, d |-> 31]

RECURSIVE MinusDays(_, _)
\* dt - timedelta(days=i), i >= 0.
MinusDays(dt, i) == IF i = 0 THEN dt ELSE MinusDays(PrevDay(dt), i - 1)

\* The ordinal of the Monday of ISO week 1 of year y.
IsoWeek1Monday(y) ==
  LET firstday == Ymd2Ord([y |-> y, m |-> 1, d |-> 1])
      firstweekday == (firstday + 6) % 7
      week1monday == firstday - firstweekday
  IN  IF firstweekday > 3 THEN week1monday + 7 ELSE week1monday

\* date.isocalendar(): <<ISO year, ISO week number>>.
IsoCalendar(dt) ==
  LET today_ == Ymd2Ord(dt)
      w0 == today_ - IsoWeek1Monday(dt.y)
  IN  IF w0 < 0
      THEN <<dt.y - 1, ((today_ - IsoWeek1Monday(dt.y - 1)) \div 7) + 1>>
      ELSE IF (w0 \div 7) >= 52 /\ today_ >= IsoWeek1Monday(dt.y + 1)
      THEN <<dt.y + 1, 1>>
      ELSE <<dt.y, (w0 \div 7) + 1>>

\* d.strftime('%Y-%m-%d')
Strftime(dt) ==
  Pad(dt.y, 4) \o <<OrdDash>> \o Pad(dt.m, 2) \o <<OrdDash>> \o Pad(dt.d, 2)

\* Whether datetime.strptime(s, '%Y-%m-%d') accepts s.  The strings of the
\* model are '', 'Unknown' and ten-character dates; every other shape is
\* rejected here.
StrptimeOk(s) ==
  /\ Len(s) = 10
  /\ s[5] = OrdDash /\ s[8] = OrdDash
  /\ \A i \in {1, 2, 3, 4, 6, 7, 9, 10} : IsDigit(s[i])
  /\ LET y == ParseInt(SubSeq(s, 1, 4))
         m == ParseInt(SubSeq(s, 6, 7))
         d == ParseInt(SubSeq(s, 9, 10))
     IN  y >= 1 /\ m >= 1 /\ m <= 12 /\ d >= 1 /\ d <= DaysInMonth(y, m)

\* datetime.strptime(s, '%Y-%m-%d') when it is accepted.
Strptime(s) ==
  [y |-> ParseInt(SubSeq(s, 1, 4)),
   m |-> ParseInt(SubSeq(s, 6, 7)),
   d |-> ParseInt(SubSeq(s, 9, 10))]

\* round(x) of Python 3 (to the nearest integer, a tie to the even one), for
\* x >= 0 given in tenths.
PyRound(x10) ==
  LET q == x10 \div 10
      r == x10 % 10
  IN  IF r < 5 THEN q
      ELSE IF r > 5 THEN q + 1
      ELSE IF q % 2 = 0 THEN q ELSE q + 1

(***************************************************************************)
(* Python floats that come from a division are exact fractions             *)
(* [num, den] in lowest terms; None in such a field is NoneNum.            *)
(***************************************************************************)
NoneNum == [none |-> TRUE]

RECURSIVE Gcd(_, _)
Gcd(a, b) == IF b = 0 THEN a ELSE Gcd(b, a % b)

\* n / d for n >= 0 and d > 0.
Frac(n, d) == LET g == Gcd(n, d) IN [num |-> n \div g, den |-> d \div g]

\* n / f for an integer n >= 0 and a fraction f > 0.
DivByFrac(n, f) == Frac(n * f.den, f.num)

(***************************************************************************)
(* Raw records.  A raw record is a Python dict; the model keeps the keys   *)
(* the code reads.  An absent key and a None value are the same value of   *)
(* the model wherever the code treats them alike: Null in an integer       *)
(* field, "" in a type or id, <<>> in a timestamp.                         *)
(*   Intervals: id, strava_id, note (a truthy '_note'), type,              *)
(*              start_date_local, moving_time, distance, average_speed,    *)
(*              icu_training_load (in tenths)                              *)
(*   Strava:    id, sport_type, type, start_date_local, moving_time,       *)
(*              distance, average_speed                                    *)
(*   Concept2:  id, type (the machine, which the code never reads), time    *)
(*              (hundredths of a second; 0 when absent), distance, date    *)
(* The primary records carry no 'source' key, so that their normalised     *)
(* source is the default 'INTERVALS'.                                      *)
(***************************************************************************)
\* Python truthiness of an integer-or-None value.
Truthy(x) == x /= Null /\ x /= 0

\* x or 0
OrZero(x) == IF Truthy(x) THEN x ELSE 0

Date(y, m, d) == [y |-> y, m |-> m, d |-> d]

\* An ISO timestamp 'YYYY-MM-DDT08:30:00' of the given day.
Timestamp(dt) == Strftime(dt) \o <<84, 48, 56, 58, 51, 48, 58, 48, 48>>

\* A logbook timestamp 'YYYY-MM-DD 08:30:00' of the given day.
LogbookTime(dt) == Strftime(dt) \o <<32, 48, 56, 58, 51, 48, 58, 48, 48>>

(***************************************************************************)
(* Field normalisers.  A normalised activity is a record with the fields   *)
(* id, strava_id, source, type, date, duration, distance, avg_speed, tss.  *)
(* duration is in seconds and avg_speed in metres per second, both as      *)
(* fractions; distance is in metres.                                       *)
(***************************************************************************)
process_intervals_activity(a) ==
  [id        |-> a.id,
   strava_id |-> IF Truthy(a.strava_id) THEN ToString(a.strava_id) ELSE NoneStr,
   source    |-> "INTERVALS",
   type      |-> IF a.type = "" THEN "Unknown" ELSE a.type,
   date      |-> Take(a.start_date_local, 10),
   duration  |-> Frac(OrZero(a.moving_time), 1),
   distance  |-> OrZero(a.distance),
   avg_speed |-> a.average_speed,
   tss       |-> PyRound(OrZero(a.icu_training_load))]

\* type_map of process_strava_activity.
type_map ==
  [k \in {"Ride", "VirtualRide", "Run", "VirtualRun", "Rowing", "Kayaking",
          "WeightTraining", "Workout", "Yoga", "Walk", "Hike", "Swim",
          "Crossfit", "Elliptical", "StairStepper"} |->
     IF k \in {"Elliptical", "StairStepper"} THEN "Cardio" ELSE k]

process_strava_activity(a) ==
  [id        |-> "strava_" \o ToString(a.id),
   strava_id |-> ToString(a.id),
   source    |-> "STRAVA",
   type      |-> LET key == IF a.sport_type /= "" THEN a.sport_type ELSE a.type
                 IN  IF key \in DOMAIN type_map THEN type_map[key]
                     ELSE IF a.sport_type = "" THEN "Other" ELSE a.sport_type,
   date      |-> Take(a.start_date_local, 10),
   duration  |-> Frac(OrZero(a.moving_time), 1),
   distance  |-> OrZero(a.distance),
   avg_speed |-> a.average_speed,
   tss       |-> 0]

\* A conversion that takes the raw time for milliseconds.
DurationSecondsMillis(duration_raw) == Frac(duration_raw, 1000)

\* duration_seconds = duration_raw / 100
DurationSeconds(duration_raw) == Frac(duration_raw, 100)

\* A speed that is the inverse: seconds per metre.
Concept2SpeedInverse(distance, duration_seconds) ==
  IF duration_seconds.num > 0 /\ distance > 0
  THEN Frac(duration_seconds.num, distance * duration_seconds.den)
  ELSE NoneNum

\* distance / duration_seconds if duration_seconds > 0 else None
Concept2Speed(distance, duration_seconds) ==
  IF duration_seconds.num > 0 THEN DivByFrac(distance, duration_seconds) ELSE NoneNum

\* The 'heart_rate' entry of a Concept2 workout: absent, a JSON object with
\* 'average' and 'max' (Null for a key it lacks), or a bare number.
HrAbsent == [shape |-> "absent"]

HrObject(average, max) == [shape |-> "object", average |-> average, max |-> max]

HrNumber(value) == [shape |-> "number", value |-> value]

\* hr_data = w.get('heart_rate', {}); avg_hr is hr_data.get('average') for a
\* dict, hr_data for an int or float, None otherwise.
Concept2AvgHr(hr_data) ==
  CASE hr_data.shape = "absent" -> Null
    [] hr_data.shape = "object" -> hr_data.average
    [] hr_data.shape = "number" -> hr_data.value

\* max_hr is hr_data.get('max') for a dict, None otherwise.
Concept2MaxHr(hr_data) ==
  CASE hr_data.shape = "absent" -> Null
    [] hr_data.shape = "object" -> hr_data.max
    [] hr_data.shape = "number" -> Null

\* The try block returns None for time == 0 (or absent); a None time or a
\* None distance raises TypeError inside it, which the except turns into
\* None as well.
process_concept2_activity(w) ==
  IF w.time = 0 THEN NoneAct
  ELSE IF w.time = Null \/ w.distance = Null THEN NoneAct
  ELSE [id        |-> "concept2_" \o ToString(w.id),
        strava_id |-> NoneStr,
        source    |-> "CONCEPT2",
        type      |-> "Rowing",
        date      |-> IF w.date /= <<>> THEN Take(w.date, 10) ELSE StrUnknown,
        duration  |-> DurationSeconds(w.time),
        distance  |-> w.distance,
        avg_hr    |-> Concept2AvgHr(w.heart_rate),
        max_hr    |-> Concept2MaxHr(w.heart_rate),
        avg_speed |-> Concept2Speed(w.distance, DurationSeconds(w.time)),
        tss       |-> 0]

\* Concept2Connector.standardize_workout, without its name, description
\* and splits entries, and with the two heart-rate entries of its metrics.
\* raw.get("time", 0) / 100 raises TypeError for a None time, and
\* distance > 0 for a None distance; raw.get("heart_rate", {}).get("average")
\* raises AttributeError when the entry is a number, which has no get.
standardize_workout(w) ==
  IF w.time = Null \/ w.distance = Null THEN [st |-> "TypeError"]
  ELSE IF w.heart_rate.shape = "number" THEN [st |-> "AttributeError"]
  ELSE [st |-> "ok",
        act |-> [id             |-> ToString(w.id),
                 source         |-> "concept2",
                 type           |-> "Rowing",
                 start_time     |-> w.date,
                 duration       |-> Frac(w.time, 100),
                 distance       |-> w.distance,
                 avg_heart_rate |-> Concept2AvgHr(w.heart_rate),
                 max_heart_rate |-> Concept2MaxHr(w.heart_rate)]]

(***************************************************************************)
(* deduplicate and merge_activities.                                       *)
(***************************************************************************)
\* str(item.get(key, '')) for key = 'id'.  An id that is a string is the id
\* field of the record; an id that is a number is its int_id field, which
\* str prints in decimal; a record with neither has no 'id' key.
ItemKey(item) ==
  IF "id" \in DOMAIN item THEN item.id
  ELSE IF "int_id" \in DOMAIN item THEN ToString(item.int_id)
  ELSE ""

RECURSIVE DedupFrom(_, _, _)
DedupFrom(items, seen, result) ==
  IF items = <<>> THEN result
  ELSE LET k == ItemKey(Head(items))
       IN  IF k \notin seen
           THEN DedupFrom(Tail(items), seen \cup {k}, Append(result, Head(items)))
           ELSE DedupFrom(Tail(items), seen, result)

\* deduplicate(items, key='id')
\* A deduplicate that keeps the last record of each id instead of the first.
deduplicate_keep_last(items) ==
  LET Reversed(s) == [k \in 1..Len(s) |-> s[Len(s) - k + 1]]
  IN  Reversed(DedupFrom(Reversed(items), {}, <<>>))

deduplicate(items) == DedupFrom(items, {}, <<>>)

\* A stub test that forgets the empty type.
IsStubNoteOnly(a) == a.note

\* The test that makes merge_activities skip a primary record.
IsStub(a) == a.note \/ a.type = ""

RECURSIVE IntervalsLoop(_, _, _)
\* The first loop of merge_activities: <<processed, strava_ids_covered>>.
IntervalsLoop(raw, processed_, covered) ==
  IF raw = <<>> THEN <<processed_, covered>>
  ELSE LET a == Head(raw)
       IN  IF IsStub(a)
           THEN IntervalsLoop(Tail(raw), processed_,
                  IF Truthy(a.strava_id) THEN covered \cup {ToString(a.strava_id)}
                  ELSE covered)
           ELSE LET act == process_intervals_activity(a)
                IN  IntervalsLoop(Tail(raw), Append(processed_, act),
                      IF act.strava_id /= NoneStr THEN covered \cup {act.strava_id}
                      ELSE covered)

\* A second loop that adds every secondary record.
StravaIncludedAlways(a, covered) == TRUE

\* The test of the second loop: str(a.get('id','')) not in strava_ids_covered
StravaIncluded(a, covered) == ToString(a.id) \notin covered

RECURSIVE StravaLoop(_, _, _)
\* The second loop: a secondary record is added unless its id is covered.
StravaLoop(acts, processed_, covered) ==
  IF acts = <<>> THEN processed_
  ELSE LET a == Head(acts)
       IN  IF StravaIncluded(a, covered)
           THEN StravaLoop(Tail(acts), Append(processed_, process_strava_activity(a)), covered)
           ELSE StravaLoop(Tail(acts), processed_, covered)

RECURSIVE Concept2Loop(_, _)
\* The third loop: whatever process_concept2_activity returns is appended.
Concept2Loop(ws, processed_) ==
  IF ws = <<>> THEN processed_
  ELSE Concept2Loop(Tail(ws), Append(processed_, process_concept2_activity(Head(ws))))

\* The list merge_activities has built when it reaches its return statement.
MergeProcessed(i_raw, s_acts, c_acts) ==
  LET first == IntervalsLoop(i_raw, <<>>, {})
  IN  Concept2Loop(c_acts, StravaLoop(s_acts, first[1], first[2]))

RECURSIVE InsertDescUnstable(_, _)
\* An insertion that puts x in front of the elements of its own date.
InsertDescUnstable(s, x) ==
  IF s = <<>> THEN <<x>>
  ELSE IF ~StrLess(x.date, Head(s).date) THEN <<x>> \o s
  ELSE <<Head(s)>> \o InsertDescUnstable(Tail(s), x)

RECURSIVE InsertDesc(_, _)
\* x goes behind every element whose date is not smaller than its own.
InsertDesc(s, x) ==
  IF s = <<>> THEN <<x>>
  ELSE IF StrLess(Head(s).date, x.date) THEN <<x>> \o s
  ELSE <<Head(s)>> \o InsertDesc(Tail(s), x)

RECURSIVE SortByDateDesc(_)
\* sorted(s, key=lambda x: x['date'], reverse=True): a stable sort, records
\* of equal date keep their order.
SortByDateDesc(s) ==
  IF s = <<>> THEN <<>>
  ELSE InsertDesc(SortByDateDesc(SubSeq(s, 1, Len(s) - 1)), s[Len(s)])

\* The key function x['date'] raises TypeError on None.
SortRaises(s) == \E i \in 1..Len(s) : IsNone(s[i])

(***************************************************************************)
(* The aggregators.                                                        *)
(***************************************************************************)
\* A chain that puts the running types into the ride bucket.
AddToBucketRunAsRide(row, t, tss) ==
  IF t \in {"Ride", "VirtualRide", "Run", "VirtualRun"} THEN [row EXCEPT !.ride = @ + tss]
  ELSE IF t \in {"Rowing", "Kayaking"} THEN [row EXCEPT !.row = @ + tss]
  ELSE [row EXCEPT !.other = @ + tss]

\* weeks[key] += tss in the bucket of type t (the if/elif chain).
AddToBucket(row, t, tss) ==
  IF t \in {"Ride", "VirtualRide"} THEN [row EXCEPT !.ride = @ + tss]
  ELSE IF t \in {"Run", "VirtualRun"} THEN [row EXCEPT !.run = @ + tss]
  ELSE IF t \in {"Rowing", "Kayaking"} THEN [row EXCEPT !.row = @ + tss]
  ELSE [row EXCEPT !.other = @ + tss]

\* f'{iso[0]}-W{iso[1]:02d}'
WeekKey(iso) == Digits(iso[1]) \o <<OrdDash, OrdW>> \o Pad(iso[2], 2)

\* f'W{iso[1]}'
WeekLabel(iso) == <<OrdW>> \o Digits(iso[2])

\* The row a new key gets.
NewWeek(iso) ==
  [key |-> WeekKey(iso), week |-> WeekLabel(iso), year |-> iso[1],
   ride |-> 0, run |-> 0, row |-> 0, other |-> 0]

RECURSIVE WeeksLoop(_, _)
\* The loop of aggregate_weekly_tss over the activities.  weeks is the dict
\* as the sequence of its values in insertion order, each with its key.
\* The result is [st |-> "ok", rows |-> weeks], or [st |-> "ValueError"]
\* when strptime rejects the date of a record.
WeeksLoop(acts, weeks) ==
  IF acts = <<>> THEN [st |-> "ok", rows |-> weeks]
  ELSE LET a == Head(acts)
       IN  IF a.date = <<>> THEN WeeksLoop(Tail(acts), weeks)
           ELSE IF ~StrptimeOk(a.date) THEN [st |-> "ValueError"]
           ELSE LET iso == IsoCalendar(Strptime(a.date))
                    key == WeekKey(iso)
                    known == \E k \in 1..Len(weeks) : weeks[k].key = key
                    ws == IF known THEN weeks ELSE Append(weeks, NewWeek(iso))
                IN  WeeksLoop(Tail(acts),
                      [k \in 1..Len(ws) |->
                         IF ws[k].key = key
                         THEN AddToBucket(ws[k], a.type, OrZero(a.tss))
                         ELSE ws[k]])

\* The order of the sort key (x['year'], x['week']): the year as a number,
\* then the label 'W<n>' as a string.
RowLess(r1, r2) ==
  \/ r1.year < r2.year
  \/ r1.year = r2.year /\ StrLess(r1.week, r2.week)

RECURSIVE InsertRow(_, _)
InsertRow(s, x) ==
  IF s = <<>> THEN <<x>>
  ELSE IF RowLess(x, Head(s)) THEN <<x>> \o s
  ELSE <<Head(s)>> \o InsertRow(Tail(s), x)

RECURSIVE SortRows(_)
\* sorted(weeks.values(), key=lambda x: (x['year'], x['week']))
SortRows(s) ==
  IF s = <<>> THEN <<>>
  ELSE InsertRow(SortRows(SubSeq(s, 1, Len(s) - 1)), s[Len(s)])

\* The dict of a row as it is emitted (the key is the dict's, not the row's).
Emit(r) ==
  [week |-> r.week, year |-> r.year, ride |-> r.ride, run |-> r.run,
   row |-> r.row, other |-> r.other]

aggregate_weekly_tss(acts) ==
  LET res == WeeksLoop(acts, <<>>)
  IN  IF res.st /= "ok" THEN res
      ELSE LET sorted == SortRows(res.rows)
           IN  [st |-> "ok", rows |-> [k \in 1..Len(sorted) |-> Emit(sorted[k])]]

RECURSIVE SumOf(_, _)
\* sum(a[f] or 0 for a in arr)
SumOf(arr, f) ==
  IF arr = <<>> THEN 0 ELSE OrZero(Head(arr)[f]) + SumOf(Tail(arr), f)

\* round(n / 1000): to the nearest integer, a tie to the even one.
RoundThousandths(n) ==
  LET q == n \div 1000
      r == n % 1000
  IN  IF r < 500 THEN q
      ELSE IF r > 500 THEN q + 1
      ELSE IF q % 2 = 0 THEN q ELSE q + 1

\* s(arr) of calc_ytd.  The 'hours' entry, a float rounded to one decimal,
\* is left out.
YtdSummary(arr) ==
  [distance |-> RoundThousandths(SumOf(arr, "distance")),
   tss      |-> SumOf(arr, "tss"),
   count    |-> Len(arr)]

\* a['type'] in ('Rowing',)
YtdRowingTypes == {"Rowing"}

\* A summary that takes the activities of every year.
calc_ytd_every_year(acts, now) ==
  LET Cycling(a) == a.type \in {"Ride", "VirtualRide"}
      Running(a) == a.type \in {"Run", "VirtualRun"}
      Rowing(a) == a.type \in YtdRowingTypes
  IN  [total   |-> YtdSummary(acts),
       cycling |-> YtdSummary(SelectSeq(acts, Cycling)),
       running |-> YtdSummary(SelectSeq(acts, Running)),
       rowing  |-> YtdSummary(SelectSeq(acts, Rowing))]

calc_ytd(acts, now) ==
  LET year == Digits(now.y)
      InYear(a) == StartsWith(a.date, year)
      Cycling(a) == a.type \in {"Ride", "VirtualRide"}
      Running(a) == a.type \in {"Run", "VirtualRun"}
      Rowing(a) == a.type \in YtdRowingTypes
      ytd_ == SelectSeq(acts, InYear)
  IN  [total   |-> YtdSummary(ytd_),
       cycling |-> YtdSummary(SelectSeq(ytd_, Cycling)),
       running |-> YtdSummary(SelectSeq(ytd_, Running)),
       rowing  |-> YtdSummary(SelectSeq(ytd_, Rowing))]

RECURSIVE ActByDate(_, _)
\* act_by_date.get(ds, 0) after the first loop of build_heatmap.
ActByDate(acts, ds) ==
  IF acts = <<>> THEN 0
  ELSE LET a == Head(acts)
       IN  IF a.date = <<>> THEN ActByDate(Tail(acts), ds)
           ELSE (IF a.date = ds THEN OrZero(a.tss) ELSE 0) + ActByDate(Tail(acts), ds)

\* Thresholds that are reached instead of exceeded.
LevelInclusive(tss) ==
  IF tss >= 180 THEN 5
  ELSE IF tss >= 120 THEN 4
  ELSE IF tss >= 80 THEN 3
  ELSE IF tss >= 40 THEN 2
  ELSE IF tss > 0 THEN 1
  ELSE 0

\* The five tests of build_heatmap (tss > 0, > 40, > 80, > 120, > 180): the
\* last that holds sets the level.
Level(tss) ==
  IF tss > 180 THEN 5
  ELSE IF tss > 120 THEN 4
  ELSE IF tss > 80 THEN 3
  ELSE IF tss > 40 THEN 2
  ELSE IF tss > 0 THEN 1
  ELSE 0

\* A loop that leaves out the current day: range(days - 1, 0, -1).
HeatmapOffsetsSkipToday(n) == [k \in 1..(n - 1) |-> n - k]

\* range(days - 1, -1, -1): the offsets days-1, ..., 0 (none for days <= 0).
HeatmapOffsets(n) == [k \in 1..n |-> n - k]

build_heatmap(acts, n, now) ==
  LET offs == HeatmapOffsets(n)
  IN  [k \in 1..Len(offs) |->
         LET ds == Strftime(MinusDays(now, offs[k]))
             tss == ActByDate(acts, ds)
         IN  [date |-> ds, level |-> Level(tss), tss |-> tss]]

(***************************************************************************)
(* The inputs of the model.                                                *)
(***************************************************************************)
SeqsUpTo(S, n) == UNION {[1..k -> S] : k \in 0..n}

Day1 == Date(2024, 3, 4)
Day2 == Date(2024, 3, 5)

IntervalsRec(id, sid, note, type, ts, load) ==
  [id |-> id, strava_id |-> sid, note |-> note, type |-> type,
   start_date_local |-> ts, moving_time |-> 3600, distance |-> 10000,
   average_speed |-> NoneNum, icu_training_load |-> load]

StravaRec(id, st, ts) ==
  [id |-> id, sport_type |-> st, type |-> "Workout", start_date_local |-> ts,
   moving_time |-> 1800, distance |-> 5000, average_speed |-> Frac(25, 9)]

Concept2Rec(id, time, dist, date) ==
  [id |-> id, type |-> "rower", time |-> time, distance |-> dist, date |-> date,
   heart_rate |-> HrAbsent]

\* Primary records: two real activities (one linked to Strava activity 1),
\* a real activity without a date that repeats id i1, a '_note' stub
\* referencing Strava activity 1 and a stub with an empty type referencing
\* Strava activity 2.
MergeIntervals ==
  {IntervalsRec("i1", Null, FALSE, "Ride", Timestamp(Day1), 500),
   IntervalsRec("i2", 1, FALSE, "Run", Timestamp(Day2), 300),
   IntervalsRec("i1", Null, FALSE, "Ride", <<>>, Null),
   IntervalsRec("i3", 1, TRUE, "Ride", Timestamp(Day2), Null),
   IntervalsRec("i4", 2, FALSE, "", Timestamp(Day1), Null)}

MergeStrava ==
  {StravaRec(1, "Run", Timestamp(Day2)),
   StravaRec(2, "Elliptical", Timestamp(Day1)),
   StravaRec(3, "", <<>>)}

\* Tertiary records: a full workout, a workout without time, a workout
\* without date and a workout whose distance is None.
MergeConcept2 ==
  {Concept2Rec(1, 12000, 500, LogbookTime(Day1)),
   Concept2Rec(2, 0, 2000, LogbookTime(Day2)),
   Concept2Rec(3, 6000, 0, <<>>),
   Concept2Rec(4, 6000, Null, LogbookTime(Day2))}

(***************************************************************************)
(* State.                                                                  *)
(***************************************************************************)
VARIABLES
  today,          \* datetime.now(), a calendar day
  days,           \* the days argument of build_heatmap
  intervals_raw,  \* what client.get_activities returned (raw_intervals once deduplicated)
  strava_acts,    \* what strava.get_activities returned
  concept2_acts,  \* what concept2.get_workouts returned
  deduped,        \* deduplicate has run on intervals_raw
  processed,      \* the local list of merge_activities at its return statement
  merged,         \* "no", "ok" (merge_activities returned) or "TypeError" (it raised)
  activities,     \* the value merge_activities returned
  weekly,         \* [st, rows]: the outcome of aggregate_weekly_tss
  ytd,            \* [st, val]: the outcome of calc_ytd
  heatmap,        \* [st, cells]: the outcome of build_heatmap
  norm,           \* one raw record of one source, and what its normaliser gave
  wellness_raw,   \* what client.get_wellness returned
  wellness,       \* [st, recs]: the outcome of process_wellness
  call,           \* one request operation of an adapter: its replies and its outcome
  run,            \* a run of main: its position, credentials, fetches and writes
  drive,          \* a folder of the remote store and the uploads made into it
  calc            \* one call of a pure function: its arguments and its result

\* The variables beside those of the merge and the aggregators.
others == <<norm, wellness_raw, wellness, call, run, drive, calc>>

\* The variables of the remote store and of the single function calls.
aux == <<drive, calc>>

vars == <<today, days, intervals_raw, strava_acts, concept2_acts, deduped,
          processed, merged, activities, weekly, ytd, heatmap, norm,
          wellness_raw, wellness, call, run, drive, calc>>

NotRun == [st |-> "none"]

\* Neither the remote store nor a single function call is in use.
InitAux == drive = NotRun /\ calc = NotRun

\* Nothing but the merge and the aggregators is in use.
InitOthers ==
  /\ norm = NotRun
  /\ wellness_raw = <<>>
  /\ wellness = NotRun
  /\ call = NotRun
  /\ run = NotRun
  /\ InitAux

\* Nothing is merged or aggregated yet.
InitMergeResults ==
  /\ deduped = FALSE
  /\ processed = <<>>
  /\ merged = "no"
  /\ activities = <<>>
  /\ weekly = NotRun
  /\ ytd = NotRun
  /\ heatmap = NotRun

InitResults ==
  /\ InitOthers
  /\ InitMergeResults

\* The variables of the merge and the aggregators.
merge_vars == <<today, days, intervals_raw, strava_acts, concept2_acts, deduped,
                processed, merged, activities, weekly, ytd, heatmap>>

\* The merge and the aggregators are not in use.
InitMergeIdle ==
  /\ today = Day2
  /\ days = MaxDays
  /\ intervals_raw = <<>>
  /\ strava_acts = <<>>
  /\ concept2_acts = <<>>
  /\ InitMergeResults

Init ==
  /\ today = Day2
  /\ days = MaxDays
  /\ intervals_raw \in SeqsUpTo(MergeIntervals, MaxPrimary)
  /\ strava_acts \in SeqsUpTo(MergeStrava, MaxSecondary)
  /\ concept2_acts \in SeqsUpTo(MergeConcept2, MaxTertiary)
  /\ InitResults

\* main: raw_intervals = deduplicate(client.get_activities(args.oldest))
Deduplicate ==
  /\ merged = "no"
  /\ ~deduped
  /\ intervals_raw' = deduplicate(intervals_raw)
  /\ deduped' = TRUE
  /\ UNCHANGED <<today, days, strava_acts, concept2_acts, processed, merged,
                 activities, weekly, ytd, heatmap>>
  /\ UNCHANGED others

\* merge_activities(intervals_raw, strava_acts, concept2_acts)
MergeActivities ==
  /\ merged = "no"
  /\ LET p == MergeProcessed(intervals_raw, strava_acts, concept2_acts)
     IN  /\ processed' = p
         /\ IF SortRaises(p)
            THEN merged' = "TypeError" /\ activities' = <<>>
            ELSE merged' = "ok" /\ activities' = SortByDateDesc(p)
  /\ UNCHANGED <<today, days, intervals_raw, strava_acts, concept2_acts, deduped,
                 weekly, ytd, heatmap>>
  /\ UNCHANGED others

Next == Deduplicate \/ MergeActivities

Spec == Init /\ [][Next]_vars

(***************************************************************************)
(* The aggregators on what merge_activities returned.                      *)
(***************************************************************************)
\* aggregate_weekly_tss(activities)
AggregateWeeklyTss ==
  /\ merged = "ok"
  /\ weekly.st = "none"
  /\ weekly' = aggregate_weekly_tss(activities)
  /\ UNCHANGED <<today, days, intervals_raw, strava_acts, concept2_acts, deduped,
                 processed, merged, activities, ytd, heatmap>>
  /\ UNCHANGED others

\* calc_ytd(activities)
CalcYtd ==
  /\ merged = "ok"
  /\ ytd.st = "none"
  /\ ytd' = [st |-> "ok", val |-> calc_ytd(activities, today)]
  /\ UNCHANGED <<today, days, intervals_raw, strava_acts, concept2_acts, deduped,
                 processed, merged, activities, weekly, heatmap>>
  /\ UNCHANGED others

\* build_heatmap(activities, days)
BuildHeatmap ==
  /\ merged = "ok"
  /\ heatmap.st = "none"
  /\ heatmap' = [st |-> "ok", cells |-> build_heatmap(activities, days, today)]
  /\ UNCHANGED <<today, days, intervals_raw, strava_acts, concept2_acts, deduped,
                 processed, merged, activities, weekly, ytd>>
  /\ UNCHANGED others

Week2Day == Date(2024, 1, 8)
LastYearDay == Date(2023, 12, 31)

\* Primary records of the weekly and year-to-date runs: every bucket, two
\* ISO weeks of one year (week 2 and week 10), a day of the year before and
\* a record without a date.
AggIntervals ==
  {IntervalsRec("a1", Null, FALSE, "Ride", Timestamp(Day1), 500),
   IntervalsRec("a2", Null, FALSE, "Run", Timestamp(Day2), 300),
   IntervalsRec("a3", Null, FALSE, "VirtualRide", Timestamp(Week2Day), 405),
   IntervalsRec("a4", Null, FALSE, "Kayaking", Timestamp(Week2Day), 200),
   IntervalsRec("a5", Null, FALSE, "Rowing", Timestamp(Day2), 100),
   IntervalsRec("a6", Null, FALSE, "Yoga", Timestamp(Day1), 150),
   IntervalsRec("a7", Null, FALSE, "VirtualRun", Timestamp(LastYearDay), 800),
   IntervalsRec("a8", Null, FALSE, "Run", <<>>, 300)}

InitAgg ==
  /\ today = Day2
  /\ days = MaxDays
  /\ intervals_raw \in SeqsUpTo(AggIntervals, MaxActs)
  /\ strava_acts \in {<<>>, <<StravaRec(1, "Run", Timestamp(Day2))>>}
  /\ concept2_acts \in {<<>>,
                        <<Concept2Rec(1, 12000, 500, LogbookTime(Day1))>>,
                        <<Concept2Rec(3, 6000, 0, <<>>)>>}
  /\ InitResults

NextAgg == MergeActivities \/ AggregateWeeklyTss \/ CalcYtd \/ BuildHeatmap

SpecAgg == InitAgg /\ [][NextAgg]_vars

MarchFirst == Date(2024, 3, 1)

\* Primary records of the heatmap runs: one type, the two last days or no
\* date, and training loads whose sums meet every threshold.
HeatIntervals ==
  {IntervalsRec("h", Null, FALSE, "Ride", ts, load) :
     ts \in {Timestamp(Day1), Timestamp(Day2), <<>>},
     load \in {Null, 10, 400, 410, 800, 1200, 1800}}

InitHeat ==
  /\ today \in {Day2, MarchFirst}
  /\ days \in 0..MaxDays
  /\ intervals_raw \in SeqsUpTo(HeatIntervals, MaxActs)
  /\ strava_acts = <<>>
  /\ concept2_acts = <<>>
  /\ InitResults

NextHeat == MergeActivities \/ BuildHeatmap

SpecHeat == InitHeat /\ [][NextHeat]_vars

(***************************************************************************)
(* Properties of merge_activities and deduplicate (specification Spec).    *)
(***************************************************************************)
Indices(s) == 1..Len(s)

\* The number of elements of s that satisfy a test is the length of SelectSeq.
CountId(s, id) == Cardinality({k \in Indices(s) : s[k].id = id})

\* A primary record that merge_activities must skip: a '_note' marker or an
\* empty type.
ClaimStub(a) == a.note \/ a.type = ""

\* The cross-source ids the primary records reference, stubs included.
ClaimCovered ==
  {ToString(intervals_raw[i].strava_id) :
     i \in {j \in Indices(intervals_raw) : Truthy(intervals_raw[j].strava_id)}}

StravaCount(x) == Cardinality({j \in Indices(strava_acts) : strava_acts[j].id = x})

InputTotal == Len(intervals_raw) + Len(strava_acts) + Len(concept2_acts)

NoStubs == \A i \in Indices(intervals_raw) : ~ClaimStub(intervals_raw[i])

NoCrossDuplicates ==
  \A j \in Indices(strava_acts) : ToString(strava_acts[j].id) \notin ClaimCovered

\* C1: in the value merge_activities returns, a secondary record is present
\* exactly when its id is not referenced by a primary record (stubs
\* included); and when a primary stub references X and the secondary source
\* returns X, there is no secondary record for X in the output, so that the
\* output holds at most one record for X whenever at most one real primary
\* record references X.
C1_SecondaryIffNotCovered ==
  merged = "ok" =>
    /\ \A j \in Indices(strava_acts) :
         LET x == strava_acts[j].id
         IN  CountId(activities, "strava_" \o ToString(x)) =
               IF ToString(x) \in ClaimCovered THEN 0 ELSE StravaCount(x)
    /\ \A i \in Indices(intervals_raw) : \A j \in Indices(strava_acts) :
         LET a == intervals_raw[i]
             x == strava_acts[j].id
         IN  (/\ ClaimStub(a)
              /\ a.strava_id = x
              /\ Cardinality({k \in Indices(intervals_raw) :
                                /\ ~ClaimStub(intervals_raw[k])
                                /\ intervals_raw[k].strava_id = x}) <= 1)
             => Cardinality({k \in Indices(activities) :
                               activities[k].strava_id = ToString(x)}) <= 1

\* C1 witness: merge_activities returned, a stub referenced a Strava id that
\* the secondary source returned too, and another secondary record was kept.
C1_Witness ==
  /\ merged = "ok"
  /\ \E i \in Indices(intervals_raw) : \E j \in Indices(strava_acts) :
       /\ ClaimStub(intervals_raw[i])
       /\ intervals_raw[i].strava_id = strava_acts[j].id
  /\ \E k \in Indices(activities) : activities[k].source = "STRAVA"

\* C2: after deduplicate and merge_activities no two records of the merged
\* collection have the same id.
C2_UniqueIds ==
  (deduped /\ merged = "ok") =>
    \A i, j \in Indices(activities) :
      i /= j => activities[i].id /= activities[j].id

\* C3 as stated: the merged length is at most the sum of the input lengths
\* and equals it exactly when no secondary id is referenced by a primary
\* record.
C3_LengthEqualityIffNoCrossDuplicates ==
  merged = "ok" =>
    /\ Len(activities) <= InputTotal
    /\ (Len(activities) = InputTotal) <=> NoCrossDuplicates

\* C3 amended: whenever merge_activities returns, the merged length is the
\* sum of the input lengths less the primary stubs and the covered
\* secondary records; so it is at most the sum, and equals it exactly when
\* no primary record is a stub and no secondary id is referenced by a
\* primary record.
C3_LengthAmended ==
  merged = "ok" =>
    /\ Len(activities) =
         InputTotal
         - Cardinality({i \in Indices(intervals_raw) : ClaimStub(intervals_raw[i])})
         - Cardinality({j \in Indices(strava_acts) :
                          ToString(strava_acts[j].id) \in ClaimCovered})
    /\ Len(activities) <= InputTotal
    /\ (Len(activities) = InputTotal) <=> (NoStubs /\ NoCrossDuplicates)

\* C3 witness: a returned merge that is shorter than its inputs although no
\* secondary id is referenced by a primary record.
C3_Witness ==
  /\ merged = "ok"
  /\ ~NoStubs
  /\ NoCrossDuplicates
  /\ strava_acts /= <<>>
  /\ Len(activities) < InputTotal

\* C4: when one tertiary record normalises to no activity, merge_activities
\* still returns: the record is dropped and the others are returned sorted.
C4_MergeSurvivesFailedRecord ==
  merged /= "no" =>
    /\ merged = "ok"
    /\ \A k \in Indices(activities) : ~IsNone(activities[k])
    /\ Len(activities) =
         Cardinality({k \in Indices(processed) : ~IsNone(processed[k])})

DatesOf(s) == {s[k].date : k \in Indices(s)}

WithDate(s, d) == LET Same(x) == x.date = d IN SelectSeq(s, Same)

FromSource(s, src) == LET Same(x) == x.source = src IN SelectSeq(s, Same)

IdsOf(s) == [k \in Indices(s) |-> s[k].id]

SourceRank(src) == IF src = "INTERVALS" THEN 1 ELSE IF src = "STRAVA" THEN 2 ELSE 3

\* The real primary records, the uncovered secondary records and the
\* tertiary records, each in input order.
RealPrimary == LET Real(a) == ~ClaimStub(a) IN SelectSeq(intervals_raw, Real)

KeptSecondary ==
  LET Kept(a) == ToString(a.id) \notin ClaimCovered IN SelectSeq(strava_acts, Kept)

\* C5: the returned sequence is date-descending; the records of one date
\* are in insertion order, which is primary, then secondary, then tertiary,
\* and input order within a source.
C5_SortedDescStable ==
  merged = "ok" =>
    /\ \A k \in 1..(Len(activities) - 1) :
         ~StrLess(activities[k].date, activities[k + 1].date)
    /\ Len(activities) = Len(processed)
    /\ \A d \in DatesOf(processed) : WithDate(activities, d) = WithDate(processed, d)
    /\ \A k \in 1..(Len(processed) - 1) :
         SourceRank(processed[k].source) <= SourceRank(processed[k + 1].source)
    /\ IdsOf(FromSource(processed, "INTERVALS")) = IdsOf(RealPrimary)
    /\ IdsOf(FromSource(processed, "STRAVA")) =
         [k \in Indices(KeptSecondary) |-> "strava_" \o ToString(KeptSecondary[k].id)]
    /\ IdsOf(FromSource(processed, "CONCEPT2")) =
         [k \in Indices(concept2_acts) |-> "concept2_" \o ToString(concept2_acts[k].id)]

\* C5 witness: a returned sequence with two dates, in which two records of
\* one date come from different sources and differ.
C5_Witness ==
  /\ merged = "ok"
  /\ Len(activities) >= 3
  /\ activities[1].date /= activities[Len(activities)].date
  /\ \E k \in 1..(Len(activities) - 1) :
       /\ activities[k].date = activities[k + 1].date
       /\ activities[k].source /= activities[k + 1].source

(***************************************************************************)
(* Properties of build_heatmap (specification SpecHeat).                   *)
(***************************************************************************)
RECURSIVE SumTss(_, _)
\* The sum of the tss of the records of s at the indices of I.
SumTss(s, I) ==
  IF I = {} THEN 0
  ELSE LET k == CHOOSE x \in I : TRUE
       IN  s[k].tss + SumTss(s, I \ {k})

OnDate(ds) == {k \in Indices(activities) : activities[k].date = ds}

\* C6: build_heatmap(activities, days=N) returns N cells, one per calendar
\* day, consecutive and ascending, the last one the current day, no date
\* twice; a day without activity has tss 0 and level 0.
C6_HeatmapComplete ==
  heatmap.st = "ok" =>
    LET cells == heatmap.cells
    IN  /\ Len(cells) = days
        /\ \A k \in Indices(cells) : StrptimeOk(cells[k].date)
        /\ days > 0 => cells[days].date = Strftime(today)
        /\ \A k \in 1..(Len(cells) - 1) :
             Ymd2Ord(Strptime(cells[k + 1].date)) = Ymd2Ord(Strptime(cells[k].date)) + 1
        /\ \A j, k \in Indices(cells) : j /= k => cells[j].date /= cells[k].date
        /\ \A k \in Indices(cells) :
             OnDate(cells[k].date) = {} => (cells[k].tss = 0 /\ cells[k].level = 0)

\* C6 witness: a heatmap of several days in which one day has activity and
\* another has none.
C6_Witness ==
  /\ heatmap.st = "ok"
  /\ days >= 2
  /\ Len(heatmap.cells) = days
  /\ \E j, k \in Indices(heatmap.cells) :
       heatmap.cells[j].tss > 0 /\ OnDate(heatmap.cells[k].date) = {}

\* The level the thresholds 0, 40, 80, 120, 180 give, each strictly exceeded.
ClaimLevel(tss) ==
  CASE tss = 0 -> 0
    [] 0 < tss /\ tss <= 40 -> 1
    [] 40 < tss /\ tss <= 80 -> 2
    [] 80 < tss /\ tss <= 120 -> 3
    [] 120 < tss /\ tss <= 180 -> 4
    [] tss > 180 -> 5

\* C7: in every cell tss is the sum of the TSS of the activities of that
\* date, and level is the highest threshold strictly exceeded; tss = 40
\* gives level 1 and tss = 41 gives level 2.
C7_HeatmapLevels ==
  heatmap.st = "ok" =>
    \A k \in Indices(heatmap.cells) :
      LET c == heatmap.cells[k]
      IN  /\ c.tss = SumTss(activities, OnDate(c.date))
          /\ c.level = ClaimLevel(c.tss)
          /\ c.tss = 40 => c.level = 1
          /\ c.tss = 41 => c.level = 2

\* C7 witness: a heatmap with a day of tss 40 at level 1 and a day of tss 41
\* at level 2.
C7_Witness ==
  /\ heatmap.st = "ok"
  /\ \E j, k \in Indices(heatmap.cells) :
       /\ heatmap.cells[j].tss = 40 /\ heatmap.cells[j].level = 1
       /\ heatmap.cells[k].tss = 41 /\ heatmap.cells[k].level = 2

(***************************************************************************)
(* Properties of the aggregators (specification SpecAgg).                  *)
(***************************************************************************)
\* The ISO week of a day by its definition: the week is that of its
\* Thursday, the ISO year is the calendar year of that Thursday, and the
\* week number counts the Thursdays of that year.
ClaimIsoWeek(dt) ==
  LET ord == Ymd2Ord(dt)
      thursday == ord - ((ord + 6) % 7) + 3
      y == CHOOSE c \in {dt.y - 1, dt.y, dt.y + 1} :
             DaysBeforeYear(c) < thursday /\ thursday <= DaysBeforeYear(c + 1)
  IN  <<y, ((thursday - DaysBeforeYear(y) - 1) \div 7) + 1>>

Dated == {k \in Indices(activities) : activities[k].date /= <<>>}

WeekOfAct(k) == ClaimIsoWeek(Strptime(activities[k].date))

WeekOfRow(r) == <<r.year, ParseInt(Tail(r.week))>>

ClaimBucket(t) ==
  CASE t \in {"Ride", "VirtualRide"} -> "ride"
    [] t \in {"Run", "VirtualRun"} -> "run"
    [] t \in {"Rowing", "Kayaking"} -> "row"
    [] OTHER -> "other"

InBucket(w, b) ==
  {k \in Dated : WeekOfAct(k) = w /\ ClaimBucket(activities[k].type) = b}

\* C8: aggregate_weekly_tss emits one row per ISO (year, week) that holds a
\* dated activity and no other row, and each bucket of a row is the sum of
\* the TSS of that week's activities of that class.
C8_WeeklyBuckets ==
  weekly.st = "ok" =>
    LET rows == weekly.rows
    IN  /\ {WeekOfRow(rows[j]) : j \in Indices(rows)} = {WeekOfAct(k) : k \in Dated}
        /\ \A i, j \in Indices(rows) :
             i /= j => WeekOfRow(rows[i]) /= WeekOfRow(rows[j])
        /\ \A j \in Indices(rows) :
             LET w == WeekOfRow(rows[j])
             IN  /\ rows[j].ride = SumTss(activities, InBucket(w, "ride"))
                 /\ rows[j].run = SumTss(activities, InBucket(w, "run"))
                 /\ rows[j].row = SumTss(activities, InBucket(w, "row"))
                 /\ rows[j].other = SumTss(activities, InBucket(w, "other"))

\* C8 witness: a Ride of tss 50 and a Run of tss 30 in one ISO week gave the
\* single row ride=50, run=30, row=0, other=0.
C8_Witness ==
  /\ weekly.st = "ok"
  /\ Len(activities) = 2
  /\ \E i, j \in Indices(activities) :
       /\ activities[i].type = "Ride" /\ activities[i].tss = 50
       /\ activities[j].type = "Run" /\ activities[j].tss = 30
       /\ activities[i].date /= activities[j].date
  /\ Len(weekly.rows) = 1
  /\ weekly.rows[1].ride = 50 /\ weekly.rows[1].run = 30
  /\ weekly.rows[1].row = 0 /\ weekly.rows[1].other = 0

\* C9: the rows aggregate_weekly_tss returns are in ascending (ISO year,
\* ISO week number) order.
C9_RowsAscendingByWeekNumber ==
  weekly.st = "ok" =>
    \A j \in 1..(Len(weekly.rows) - 1) :
      LET w1 == WeekOfRow(weekly.rows[j])
          w2 == WeekOfRow(weekly.rows[j + 1])
      IN  w1[1] < w2[1] \/ (w1[1] = w2[1] /\ w1[2] < w2[2])

\* C10: on every sequence merge_activities returns, each aggregator returns
\* a result; none raises.
C10_AggregatorsNeverRaise ==
  merged = "ok" =>
    /\ weekly.st \in {"none", "ok"}
    /\ ytd.st \in {"none", "ok"}
    /\ heatmap.st \in {"none", "ok"}

(***************************************************************************)
(* Normalisation of one raw record.                                        *)
(***************************************************************************)

\* What the primary loop of merge_activities makes of one record: a stub
\* is skipped, every other record goes through process_intervals_activity.
IntervalsRecord(a) == IF IsStub(a) THEN NoneAct ELSE process_intervals_activity(a)

\* Primary records with and without the stub markers, with moving_time,
\* distance and average_speed present, zero or missing.
NormIntervals ==
  {[IntervalsRec("n1", Null, note, type, Timestamp(Day1), 500)
      EXCEPT !.moving_time = mt, !.distance = dist, !.average_speed = sp] :
     note \in BOOLEAN, type \in {"", "Ride"}, mt \in {Null, 0, 3600},
     dist \in {Null, 0, 10000}, sp \in {NoneNum, Frac(25, 9)}}

NormStrava ==
  {[StravaRec(1, "Run", Timestamp(Day1))
      EXCEPT !.moving_time = mt, !.distance = dist, !.average_speed = sp] :
     mt \in {Null, 0, 1800}, dist \in {0, 5000}, sp \in {NoneNum, Frac(25, 9)}}

NormConcept2 ==
  {[Concept2Rec(1, time, dist, date) EXCEPT !.heart_rate = hr] :
     time \in {Null, 0, 6000, 12000, 12345}, dist \in {Null, 0, 500, 2000},
     date \in {<<>>, LogbookTime(Day1)},
     hr \in {HrAbsent, HrObject(140, 170), HrObject(140, Null), HrNumber(135)}}

InitNorm ==
  /\ InitMergeIdle
  /\ InitAux
  /\ wellness_raw = <<>>
  /\ wellness = NotRun
  /\ call = NotRun
  /\ run = NotRun
  /\ \E src \in {"intervals", "strava", "concept2"} :
       \E raw \in (CASE src = "intervals" -> NormIntervals
                     [] src = "strava" -> NormStrava
                     [] OTHER -> NormConcept2) :
         norm = [src |-> src, raw |-> raw, out |-> NotRun, std |-> NotRun]

\* The normaliser of the record's source has returned act.
Normalized(act) ==
  /\ norm.out = NotRun
  /\ norm' = [norm EXCEPT !.out = [st |-> "ok", act |-> act]]
  /\ UNCHANGED <<merge_vars, wellness_raw, wellness, call, run, aux>>

NormalizeIntervals == norm.src = "intervals" /\ Normalized(IntervalsRecord(norm.raw))

NormalizeStrava == norm.src = "strava" /\ Normalized(process_strava_activity(norm.raw))

NormalizeConcept2 ==
  norm.src = "concept2" /\ Normalized(process_concept2_activity(norm.raw))

\* Concept2Connector.standardize_workout(raw)
StandardizeWorkout ==
  /\ norm.src = "concept2"
  /\ norm.std = NotRun
  /\ norm' = [norm EXCEPT !.std = standardize_workout(norm.raw)]
  /\ UNCHANGED <<merge_vars, wellness_raw, wellness, call, run, aux>>

NextNorm ==
  NormalizeIntervals \/ NormalizeStrava \/ NormalizeConcept2 \/ StandardizeWorkout

SpecNorm == InitNorm /\ [][NextNorm]_vars

\* The record carries a '_note' marker or has an empty type.
ClaimStubRecord == norm.raw.type = "" \/ (norm.src = "intervals" /\ norm.raw.note)

\* C11: normalising a raw record never raises, and the result is null
\* exactly when the record is a stub; every other record of every source,
\* fields missing or zero included, yields an activity.
C11_NullOnlyForStubs ==
  norm.out /= NotRun =>
    /\ norm.out.st = "ok"
    /\ IsNone(norm.out.act) <=> ClaimStubRecord

\* The fraction f is n / d in lowest terms, for n >= 0 and d > 0.
ClaimIsRatio(f, n, d) ==
  /\ f /= NoneNum
  /\ f.den > 0
  /\ f.num * d = n * f.den
  /\ \A k \in 2..f.den : ~(f.num % k = 0 /\ f.den % k = 0)

\* C12: a rowing record with time t normalises to a duration of t/100
\* seconds, by process_concept2_activity and by standardize_workout;
\* time = 12000 gives 120.
C12_RowingDurationSeconds ==
  /\ (norm.src = "concept2" /\ norm.out /= NotRun /\ ~IsNone(norm.out.act)) =>
       /\ ClaimIsRatio(norm.out.act.duration, norm.raw.time, 100)
       /\ norm.raw.time = 12000 => norm.out.act.duration = [num |-> 120, den |-> 1]
  /\ (norm.src = "concept2" /\ norm.std /= NotRun /\ norm.std.st = "ok") =>
       /\ ClaimIsRatio(norm.std.act.duration, norm.raw.time, 100)
       /\ norm.raw.time = 12000 => norm.std.act.duration = [num |-> 120, den |-> 1]

C12_Witness ==
  /\ norm.src = "concept2"
  /\ norm.raw.time = 12000
  /\ norm.out /= NotRun /\ ~IsNone(norm.out.act)
  /\ norm.out.act.duration = [num |-> 120, den |-> 1]
  /\ norm.std /= NotRun /\ norm.std.st = "ok"
  /\ norm.std.act.duration = [num |-> 120, den |-> 1]

\* avg_speed is distance/duration when duration > 0 and null otherwise.
ClaimDerivedSpeed(act) ==
  IF act.duration.num > 0
  THEN ClaimIsRatio(act.avg_speed, act.distance * act.duration.den, act.duration.num)
  ELSE act.avg_speed = NoneNum

WellnessRec(id, ctl, load) == [id |-> id, ctl |-> ctl, trainingLoad |-> load]

\* The dict process_wellness appends for one entry.
WellnessRecord(w) ==
  [date |-> w.id, ctl |-> w.ctl, tss |-> OrZero(w.trainingLoad)]

RECURSIVE InsertAsc(_, _)
\* x goes behind every element whose date is not greater than its own.
InsertAsc(s, x) ==
  IF s = <<>> THEN <<x>>
  ELSE IF StrLess(x.date, Head(s).date) THEN <<x>> \o s
  ELSE <<Head(s)>> \o InsertAsc(Tail(s), x)

RECURSIVE SortByDateAsc(_)
\* sorted(processed, key=lambda x: x['date']): a stable sort.
SortByDateAsc(s) ==
  IF s = <<>> THEN <<>>
  ELSE InsertAsc(SortByDateAsc(SubSeq(s, 1, Len(s) - 1)), s[Len(s)])

\* process_wellness(raw)
process_wellness(raw) ==
  SortByDateAsc([i \in 1..Len(raw) |-> WellnessRecord(raw[i])])

\* Entries of three days, one of them a second entry of Day1 with other
\* values, and an entry without an id.
WellnessEntries ==
  {WellnessRec(Strftime(Day1), 40, 50), WellnessRec(Strftime(Day1), 41, Null),
   WellnessRec(Strftime(Day2), 42, 60), WellnessRec(Strftime(MarchFirst), 39, 0),
   WellnessRec(<<>>, Null, Null)}

InitWell ==
  /\ InitMergeIdle
  /\ InitAux
  /\ norm = NotRun
  /\ call = NotRun
  /\ run = NotRun
  /\ wellness_raw \in SeqsUpTo(WellnessEntries, MaxWellness)
  /\ wellness = NotRun

\* main: wellness = process_wellness(client.get_wellness(args.oldest))
ProcessWellness ==
  /\ wellness = NotRun
  /\ wellness' = [st |-> "ok", recs |-> process_wellness(wellness_raw)]
  /\ UNCHANGED <<merge_vars, norm, wellness_raw, call, run, aux>>

NextWell == ProcessWellness

SpecWell == InitWell /\ [][NextWell]_vars

\* C14: the sequence process_wellness returns is strictly ascending by
\* date: sorted, and no two records of one date.
C14_WellnessStrictlyAscending ==
  wellness /= NotRun =>
    \A j \in 1..(Len(wellness.recs) - 1) :
      StrLess(wellness.recs[j].date, wellness.recs[j + 1].date)

(***************************************************************************)
(* The request operations of the adapters.  The server's answers to the    *)
(* successive GETs of one call are a script of MaxAttempts replies: a      *)
(* status code, or "timeout" for a transport error.  An operation returns  *)
(* [st, exc, attempts]: st is "returned" (the JSON body), "none" (None),   *)
(* "raised" (exc names the exception) or "unfinished" (the operation has   *)
(* sent MaxAttempts GETs and is about to send one more, where the model    *)
(* stops following it); attempts counts the GETs sent.                     *)
(***************************************************************************)
Replies == {"200", "401", "429", "500", "timeout"}

Outcome(st, exc, attempts) == [st |-> st, exc |-> exc, attempts |-> attempts]

\* The default of IntervalsClient._get's retries parameter.
Retries == 3

RECURSIVE IntervalsGetLoop(_, _)
\* The for loop of IntervalsClient._get from the iteration 'attempt' on.
IntervalsGetLoop(script, attempt) ==
  IF attempt = Retries THEN Outcome("none", "", attempt)
  ELSE LET r == script[attempt + 1]
       IN  CASE r = "200" -> Outcome("returned", "", attempt + 1)
             [] r = "429" -> IntervalsGetLoop(script, attempt + 1)
             [] r \in {"401", "500"} -> Outcome("raised", "HTTPError", attempt + 1)
             [] OTHER -> IF attempt = Retries - 1
                         THEN Outcome("raised", "ConnectionError", attempt + 1)
                         ELSE IntervalsGetLoop(script, attempt + 1)

\* IntervalsClient._get(endpoint, params)
IntervalsGet(script) == IntervalsGetLoop(script, 0)

RECURSIVE StravaGetLoop(_, _)
\* The for loop of StravaClient._get from the iteration 'attempt' on.
StravaGetLoop(script, attempt) ==
  IF attempt = 3 THEN Outcome("none", "", attempt)
  ELSE LET r == script[attempt + 1]
       IN  CASE r = "200" -> Outcome("returned", "", attempt + 1)
             [] r = "429" -> StravaGetLoop(script, attempt + 1)
             [] OTHER -> IF attempt = 2
                         THEN Outcome("none", "", attempt + 1)
                         ELSE StravaGetLoop(script, attempt + 1)

\* StravaClient._get(endpoint, params)
StravaGet(script) == StravaGetLoop(script, 0)

\* Concept2Client._get(endpoint, params): token says whether the client
\* holds an unexpired access token, auth_ok whether authenticate succeeds.
Concept2Get(token, auth_ok, script) ==
  IF ~token /\ ~auth_ok THEN Outcome("none", "", 0)
  ELSE IF script[1] = "200" THEN Outcome("returned", "", 1)
  ELSE Outcome("none", "", 1)

RECURSIVE IcuMakeRequest(_, _)
\* IntervalsICUConnector._make_request(endpoint, params), entered for the
\* (depth + 1)-th time.
IcuMakeRequest(script, depth) ==
  IF depth = MaxAttempts THEN Outcome("unfinished", "", depth)
  ELSE LET r == script[depth + 1]
       IN  CASE r = "200" -> Outcome("returned", "", depth + 1)
             [] r = "429" -> IcuMakeRequest(script, depth + 1)
             [] r \in {"401", "500"} -> Outcome("raised", "HTTPError", depth + 1)
             [] OTHER -> Outcome("raised", "ConnectionError", depth + 1)

RECURSIVE C2MakeRequest(_, _, _, _)
\* Concept2Connector._make_request(endpoint, params), entered for the
\* (depth + 1)-th time.  _ensure_authenticated raises when there is no
\* token and authenticate fails; after a 401 the result of authenticate is
\* not looked at, and the old token stays in place when it fails.
C2MakeRequest(token, auth_ok, script, depth) ==
  IF ~token /\ ~auth_ok THEN Outcome("raised", "Exception", depth)
  ELSE IF depth = MaxAttempts THEN Outcome("unfinished", "", depth)
  ELSE LET r == script[depth + 1]
       IN  CASE r = "200" -> Outcome("returned", "", depth + 1)
             [] r = "401" -> C2MakeRequest(TRUE, auth_ok, script, depth + 1)
             [] r \in {"429", "500"} -> Outcome("raised", "HTTPError", depth + 1)
             [] OTHER -> Outcome("raised", "ConnectionError", depth + 1)

Scripts == [1..MaxAttempts -> Replies]

Operations ==
  {"IntervalsClient._get", "StravaClient._get", "Concept2Client._get",
   "IntervalsICUConnector._make_request", "Concept2Connector._make_request"}

\* The operations that authenticate with a password.
UsesToken == {"Concept2Client._get", "Concept2Connector._make_request"}

InitHttp ==
  /\ InitMergeIdle
  /\ InitAux
  /\ norm = NotRun
  /\ wellness_raw = <<>>
  /\ wellness = NotRun
  /\ run = NotRun
  /\ \E op \in Operations, script \in Scripts, token, auth_ok \in BOOLEAN :
       /\ op \notin UsesToken => (token /\ auth_ok)
       /\ call = [op |-> op, script |-> script, token |-> token,
                  auth_ok |-> auth_ok, out |-> NotRun]

\* The operation call.op has ended with out, or is still sending.
Requested(op, out) ==
  /\ call.op = op
  /\ call.out = NotRun
  /\ call' = [call EXCEPT !.out = out]
  /\ UNCHANGED <<merge_vars, norm, wellness_raw, wellness, run, aux>>

IntervalsClientGet == Requested("IntervalsClient._get", IntervalsGet(call.script))

StravaClientGet == Requested("StravaClient._get", StravaGet(call.script))

Concept2ClientGet ==
  Requested("Concept2Client._get", Concept2Get(call.token, call.auth_ok, call.script))

IcuConnectorRequest ==
  Requested("IntervalsICUConnector._make_request", IcuMakeRequest(call.script, 0))

Concept2ConnectorRequest ==
  Requested("Concept2Connector._make_request",
            C2MakeRequest(call.token, call.auth_ok, call.script, 0))

NextHttp ==
  \/ IntervalsClientGet
  \/ StravaClientGet
  \/ Concept2ClientGet
  \/ IcuConnectorRequest
  \/ Concept2ConnectorRequest

SpecHttp == InitHttp /\ [][NextHttp]_vars

\* The fixed retry count of the claim: three attempts per call.
ClaimRetryCount == 3

\* C18: every request operation ends after at most the retry count of
\* GETs, whatever the server answers: none is still sending after them.
C18_BoundedAttempts ==
  call.out /= NotRun =>
    /\ call.out.st /= "unfinished"
    /\ call.out.attempts <= ClaimRetryCount

(***************************************************************************)
(* A run of main.  run.pc is the statement main is at; run holds the       *)
(* environment of the run (which credentials are set, how each server      *)
(* answers during the run, what it would send) and what the run has done   *)
(* (the sources a request went to, the artifacts written, the writes that  *)
(* failed, the exception that ended it and the statement that raised it).  *)
(* A server answers every GET of the run the same way; the token endpoints *)
(* of Strava and Concept2 accept or refuse on their own.                   *)
(***************************************************************************)
Modes == {"200", "429", "500", "timeout"}

\* The replies of a server that answers every attempt with mode.
Always(mode) == [i \in 1..MaxAttempts |-> mode]

\* A test that lets every run pass.
ApiKeyMissingNever(api_key) == FALSE

\* not API_KEY
ApiKeyMissing(api_key) == ~api_key

\* A test that takes Strava for configured whatever is set.
StravaConfiguredAlways(creds) == TRUE

\* STRAVA_CLIENT_ID and STRAVA_CLIENT_SECRET and STRAVA_REFRESH_TOKEN
StravaConfigured(creds) == creds

\* CONCEPT2_USERNAME and CONCEPT2_PASSWORD
Concept2Configured(creds) == creds

RunIntervalsData ==
  {<<>>, <<IntervalsRec("i1", 1, FALSE, "Ride", Timestamp(Day1), 500)>>}

RunStravaData ==
  {<<>>, <<StravaRec(1, "Ride", Timestamp(Day1)), StravaRec(2, "Run", Timestamp(Day2))>>}

\* Workouts: none, a complete one, one with time 0 and one without a date.
RunConcept2Data ==
  {<<>>,
   <<Concept2Rec(1, 12000, 500, LogbookTime(Day1))>>,
   <<Concept2Rec(2, 0, 2000, LogbookTime(Day2))>>,
   <<Concept2Rec(3, 6000, 0, <<>>)>>}

RunWellnessData == {<<>>, <<WellnessRec(Strftime(Day1), 40, 50)>>}

\* A server that does not answer 200 has nothing to send.
Sends(mode, data, choices) == data \in choices /\ (mode /= "200" => data = <<>>)

InitRun ==
  /\ InitMergeIdle
  /\ InitAux
  /\ norm = NotRun
  /\ call = NotRun
  /\ wellness_raw = <<>>
  /\ wellness = NotRun
  /\ \E api_key, strava_creds, concept2_creds, strava_auth, concept2_auth \in BOOLEAN :
     \E mi, mw, ms, mc \in Modes :
     \E di \in RunIntervalsData, dw \in RunWellnessData, ds \in RunStravaData,
        dc \in RunConcept2Data :
       /\ Sends(mi, di, RunIntervalsData) /\ Sends(mw, dw, RunWellnessData)
       /\ Sends(ms, ds, RunStravaData) /\ Sends(mc, dc, RunConcept2Data)
       /\ mi /= "200" => mw = mi
       /\ ~strava_creds => (strava_auth /\ ms = "200" /\ ds = <<>>)
       /\ ~concept2_creds => (concept2_auth /\ mc = "200" /\ dc = <<>>)
       /\ ~strava_auth => ms = "500"
       /\ ~concept2_auth => mc = "500"
       /\ run = [pc |-> "start",
                 api_key |-> api_key,
                 strava_creds |-> strava_creds,
                 concept2_creds |-> concept2_creds,
                 server |-> [intervals |-> mi, wellness |-> mw, strava |-> ms,
                             concept2 |-> mc, strava_auth |-> strava_auth,
                             concept2_auth |-> concept2_auth],
                 data |-> [intervals |-> di, wellness |-> dw, strava |-> ds,
                           concept2 |-> dc],
                 athlete |-> "unset",
                 strava |-> FALSE,
                 requested |-> {},
                 saved |-> <<>>,
                 failed |-> <<>>,
                 exc |-> "",
                 at |-> ""]

\* The run after the statement at run.pc raised exc out of main.
Abort(r, exc) == [r EXCEPT !.pc = "aborted", !.exc = exc, !.at = run.pc]

\* save_json(data, filename) as the statement at run.pc: the file is
\* written and main goes on to next, or open/json.dump raise OSError,
\* which nothing in main catches.
SaveJson(r, filename, next) ==
  {[r EXCEPT !.saved = Append(@, filename), !.pc = next],
   Abort([r EXCEPT !.failed = Append(@, filename)], "OSError")}

clock == <<today, days>>
fetched == <<intervals_raw, strava_acts, concept2_acts, deduped>>
results == <<processed, merged, activities, weekly, ytd, heatmap>>
well == <<wellness_raw, wellness>>
idle == <<norm, call, drive, calc>>

\* if not API_KEY: raise ValueError(...)
CheckApiKey ==
  /\ run.pc = "start"
  /\ run' = IF ApiKeyMissing(run.api_key) THEN Abort(run, "ValueError")
            ELSE [run EXCEPT !.pc = "athlete"]
  /\ UNCHANGED <<clock, fetched, results, well, idle>>

\* client = IntervalsClient(...); athlete = client.get_athlete()
GetAthlete ==
  /\ run.pc = "athlete"
  /\ LET out == IntervalsGet(Always(run.server.intervals))
         r == [run EXCEPT !.requested = @ \cup {"intervals"}]
     IN  run' = CASE out.st = "returned" -> [r EXCEPT !.athlete = "dict", !.pc = "activities"]
                  [] out.st = "none" -> [r EXCEPT !.athlete = "None", !.pc = "activities"]
                  [] OTHER -> Abort(r, out.exc)
  /\ UNCHANGED <<clock, fetched, results, well, idle>>

\* raw_intervals = deduplicate(client.get_activities(args.oldest)): when
\* _get returns None, len(data) in get_activities raises TypeError.
GetActivities ==
  /\ run.pc = "activities"
  /\ LET out == IntervalsGet(Always(run.server.intervals))
     IN  CASE out.st = "returned" ->
                /\ intervals_raw' = deduplicate(run.data.intervals)
                /\ deduped' = TRUE
                /\ run' = [run EXCEPT !.pc = "strava"]
           [] out.st = "none" ->
                /\ run' = Abort(run, "TypeError")
                /\ UNCHANGED <<intervals_raw, deduped>>
           [] OTHER ->
                /\ run' = Abort(run, out.exc)
                /\ UNCHANGED <<intervals_raw, deduped>>
  /\ UNCHANGED <<clock, strava_acts, concept2_acts, results, well, idle>>

\* StravaClient.get_activities(after_timestamp) for a source whose pages
\* hold fewer than 100 activities: a None or empty page ends the loop.
StravaGetActivities(out, page) == IF out.st = "returned" THEN page ELSE <<>>

\* The Strava block of main: the client is bound before authenticate, and
\* an exception of authenticate or get_activities is logged and dropped.
FetchStrava ==
  /\ run.pc = "strava"
  /\ IF StravaConfigured(run.strava_creds)
     THEN /\ run' = [run EXCEPT !.strava = TRUE, !.requested = @ \cup {"strava"},
                                !.pc = "concept2"]
          /\ strava_acts' = IF run.server.strava_auth
                            THEN StravaGetActivities(StravaGet(Always(run.server.strava)),
                                                     run.data.strava)
                            ELSE <<>>
     ELSE /\ run' = [run EXCEPT !.pc = "concept2"]
          /\ strava_acts' = <<>>
  /\ UNCHANGED <<clock, intervals_raw, concept2_acts, deduped, results, well, idle>>

\* Concept2Client.get_workouts(start_date)
Concept2GetWorkouts(out, workouts) == IF out.st = "returned" THEN workouts ELSE <<>>

\* The Concept2 block of main.
FetchConcept2 ==
  /\ run.pc = "concept2"
  /\ IF Concept2Configured(run.concept2_creds)
     THEN /\ run' = [run EXCEPT !.requested = @ \cup {"concept2"}, !.pc = "merge"]
          /\ concept2_acts' =
               IF run.server.concept2_auth
               THEN Concept2GetWorkouts(Concept2Get(TRUE, TRUE, Always(run.server.concept2)),
                                        run.data.concept2)
               ELSE <<>>
     ELSE /\ run' = [run EXCEPT !.pc = "merge"]
          /\ concept2_acts' = <<>>
  /\ UNCHANGED <<clock, intervals_raw, strava_acts, deduped, results, well, idle>>

\* activities = merge_activities(raw_intervals, strava_acts, concept2_acts)
RunMerge ==
  /\ run.pc = "merge"
  /\ LET p == MergeProcessed(intervals_raw, strava_acts, concept2_acts)
     IN  /\ processed' = p
         /\ IF SortRaises(p)
            THEN /\ merged' = "TypeError" /\ activities' = <<>>
                 /\ run' = Abort(run, "TypeError")
            ELSE /\ merged' = "ok" /\ activities' = SortByDateDesc(p)
                 /\ run' = [run EXCEPT !.pc = "save_activities"]
  /\ UNCHANGED <<clock, fetched, weekly, ytd, heatmap, well, idle>>

\* save_json(activities, 'activities.json')
SaveActivities ==
  /\ run.pc = "save_activities"
  /\ run' \in SaveJson(run, "activities.json", "wellness")
  /\ UNCHANGED <<clock, fetched, results, well, idle>>

\* wellness = process_wellness(client.get_wellness(args.oldest)): when
\* _get returns None, len(data) in get_wellness raises TypeError.
GetWellness ==
  /\ run.pc = "wellness"
  /\ LET out == IntervalsGet(Always(run.server.wellness))
     IN  CASE out.st = "returned" ->
                /\ wellness_raw' = run.data.wellness
                /\ wellness' = [st |-> "ok", recs |-> process_wellness(run.data.wellness)]
                /\ run' = [run EXCEPT !.pc = "save_wellness"]
           [] out.st = "none" ->
                /\ run' = Abort(run, "TypeError")
                /\ UNCHANGED well
           [] OTHER ->
                /\ run' = Abort(run, out.exc)
                /\ UNCHANGED well
  /\ UNCHANGED <<clock, fetched, results, idle>>

\* save_json(wellness, 'wellness.json')
SaveWellness ==
  /\ run.pc = "save_wellness"
  /\ run' \in SaveJson(run, "wellness.json", "save_athlete")
  /\ UNCHANGED <<clock, fetched, results, well, idle>>

\* save_json({..., 'name': athlete.get('name',''), ...}, 'athlete.json')
SaveAthlete ==
  /\ run.pc = "save_athlete"
  /\ IF run.athlete = "None" THEN run' = Abort(run, "AttributeError")
     ELSE run' \in SaveJson(run, "athlete.json", "save_weekly")
  /\ UNCHANGED <<clock, fetched, results, well, idle>>

\* save_json(aggregate_weekly_tss(activities), 'weekly_tss.json')
SaveWeekly ==
  /\ run.pc = "save_weekly"
  /\ weekly' = aggregate_weekly_tss(activities)
  /\ IF weekly'.st /= "ok" THEN run' = Abort(run, weekly'.st)
     ELSE run' \in SaveJson(run, "weekly_tss.json", "save_ytd")
  /\ UNCHANGED <<clock, fetched, processed, merged, activities, ytd, heatmap, well, idle>>

\* save_json(calc_ytd(activities), 'ytd.json')
SaveYtd ==
  /\ run.pc = "save_ytd"
  /\ ytd' = [st |-> "ok", val |-> calc_ytd(activities, today)]
  /\ run' \in SaveJson(run, "ytd.json", "save_heatmap")
  /\ UNCHANGED <<clock, fetched, processed, merged, activities, weekly, heatmap, well, idle>>

\* save_json(build_heatmap(activities, 365), 'heatmap_1y.json'), with the
\* window of the model, days, in the place of 365.
SaveHeatmap ==
  /\ run.pc = "save_heatmap"
  /\ heatmap' = [st |-> "ok", cells |-> build_heatmap(activities, days, today)]
  /\ run' \in SaveJson(run, "heatmap_1y.json", "save_segments")
  /\ UNCHANGED <<clock, fetched, processed, merged, activities, weekly, ytd, well, idle>>

\* datetime.now() - timedelta(days=n), for n of at most a year.
DaysAgo(now, n) ==
  CHOOSE dt \in {Date(y, m, d) : y \in {now.y - 1, now.y}, m \in 1..12, d \in 1..31} :
    dt.d <= DaysInMonth(dt.y, dt.m) /\ Ymd2Ord(dt) = Ymd2Ord(now) - n

\* build_segments asks Strava for the segments of the activities of the
\* last 90 days that have a strava_id.
SegmentsRequested(acts, now) ==
  LET cutoff == Strftime(DaysAgo(now, 90))
  IN  \E i \in 1..Len(acts) :
        acts[i].strava_id /= NoneStr /\ ~StrLess(acts[i].date, cutoff)

\* The segments block of main: with a Strava client, a failure of
\* save_json inside the try is caught and the empty table is saved instead.
SaveSegments ==
  /\ run.pc = "save_segments"
  /\ IF run.strava
     THEN LET r == IF SegmentsRequested(activities, today)
                   THEN [run EXCEPT !.requested = @ \cup {"strava"}]
                   ELSE run
          IN  run' \in {[r EXCEPT !.saved = Append(@, "segments.json"), !.pc = "save_meta"]}
                         \cup SaveJson([r EXCEPT !.failed = Append(@, "segments.json")],
                                       "segments.json", "save_meta")
     ELSE run' \in SaveJson(run, "segments.json", "save_meta")
  /\ UNCHANGED <<clock, fetched, results, well, idle>>

\* save_json({'last_updated': ..., 'activity_count': ..., ...}, 'meta.json')
SaveMeta ==
  /\ run.pc = "save_meta"
  /\ run' \in SaveJson(run, "meta.json", "done")
  /\ UNCHANGED <<clock, fetched, results, well, idle>>

NextRun ==
  \/ CheckApiKey
  \/ GetAthlete
  \/ GetActivities
  \/ FetchStrava
  \/ FetchConcept2
  \/ RunMerge
  \/ SaveActivities
  \/ GetWellness
  \/ SaveWellness
  \/ SaveAthlete
  \/ SaveWeekly
  \/ SaveYtd
  \/ SaveHeatmap
  \/ SaveSegments
  \/ SaveMeta

SpecRun == InitRun /\ [][NextRun]_vars

\* The run has ended: main returned or an exception left it.
Ended == run.pc \in {"done", "aborted"}

Written == {run.saved[i] : i \in 1..Len(run.saved)}

\* The artifacts save_json was called for, whether it wrote them or failed.
Attempted == Written \cup {run.failed[i] : i \in 1..Len(run.failed)}

\* The artifacts of main in the order of their writes.
ClaimArtifactOrder ==
  <<"activities.json", "wellness.json", "athlete.json", "weekly_tss.json",
    "ytd.json", "heatmap_1y.json", "segments.json", "meta.json">>

\* C15: when the write of one artifact fails, the run still attempts the
\* write of every later artifact before it ends.
C15_WriteFailureIsolated ==
  Ended =>
    \A j, k \in 1..Len(ClaimArtifactOrder) :
      (j < k /\ ClaimArtifactOrder[j] \in Attempted \ Written)
        => ClaimArtifactOrder[k] \in Attempted

\* The artifacts of the persisted set that main has a write for.
ClaimPersisted ==
  {"activities.json", "wellness.json", "weekly_tss.json", "ytd.json",
   "heatmap_1y.json", "meta.json"}

\* C16: a run that got past the credential check, and none of whose writes
\* failed, has written every artifact of the persisted set when it ends,
\* whichever fetches failed or returned nothing.
C16_EveryArtifactWritten ==
  (Ended /\ run.api_key /\ run.failed = <<>>) => ClaimPersisted \subseteq Written

\* C17: when a source answers no request of the run with success, its
\* fetches raise nothing out of main and leave its list empty; for the
\* primary source as for the others.
C17_UnavailableSourceIsEmpty ==
  /\ (run.server.intervals /= "200" \/ run.server.wellness /= "200")
       => ~(run.pc = "aborted" /\ run.at \in {"athlete", "activities", "wellness"})
  /\ (run.api_key /\ run.server.intervals /= "200"
        /\ run.pc \notin {"start", "athlete", "activities"})
       => (run.pc /= "aborted" /\ intervals_raw = <<>>)
  /\ (run.strava_creds /\ run.server.strava /= "200")
       => (strava_acts = <<>> /\ run.at /= "strava")
  /\ (run.concept2_creds /\ run.server.concept2 /= "200")
       => (concept2_acts = <<>> /\ run.at /= "concept2")

\* C19: without INTERVALS_API_KEY the run ends with ValueError at its
\* first statement: no request has gone to any source, nothing is fetched
\* and no write is attempted.
C19_NoKeyAbortsBeforeFetch ==
  ~run.api_key =>
    /\ run.pc \in {"start", "aborted"}
    /\ run.pc = "aborted" => (run.exc = "ValueError" /\ run.at = "start")
    /\ run.requested = {}
    /\ Attempted = {}
    /\ intervals_raw = <<>> /\ strava_acts = <<>> /\ concept2_acts = <<>>
    /\ wellness = NotRun

C19_Witness == ~run.api_key /\ run.pc = "aborted" /\ run.exc = "ValueError"

\* Every primary record that is no stub is among the merged activities.
ClaimPrimaryMerged ==
  \A i \in Indices(intervals_raw) :
    ~ClaimStub(intervals_raw[i])
      => \E j \in Indices(activities) : activities[j].id = intervals_raw[i].id

\* The optional source is skipped: no request went to it, its list is
\* empty, its block raised nothing, and what main merged holds the primary
\* records and nothing of the source.
ClaimSkipped(source, tag, acts) ==
  /\ source \notin run.requested
  /\ acts = <<>>
  /\ ~(run.pc = "aborted" /\ run.at = source)
  /\ merged = "ok" =>
       /\ \A j \in Indices(activities) : activities[j].source /= tag
       /\ ClaimPrimaryMerged
  /\ run.pc = "done" => ClaimPersisted \subseteq Written

\* C20: when the credentials of Strava or of Concept2 are missing, no
\* request is sent to that source, it contributes no activity, and the run
\* goes on: the other sources are fetched, merged and written.
C20_MissingOptionalCredentials ==
  /\ ~run.strava_creds => ClaimSkipped("strava", "STRAVA", strava_acts)
  /\ ~run.concept2_creds => ClaimSkipped("concept2", "CONCEPT2", concept2_acts)

\* A run without Strava credentials that fetched a primary record and a
\* rowing workout, merged the two and wrote every artifact; and a run
\* without Concept2 credentials that merged a Strava activity.
C20_Witness ==
  /\ run.pc = "done"
  /\ "activities.json" \in Written
  /\ \/ /\ ~run.strava_creds /\ run.concept2_creds
        /\ Len(activities) = 2
        /\ \E j \in Indices(activities) : activities[j].source = "CONCEPT2"
     \/ /\ run.strava_creds /\ ~run.concept2_creds
        /\ \E j \in Indices(activities) : activities[j].source = "STRAVA"

(***************************************************************************)
(* The remote store.  drive.files is one Drive folder, a set of files      *)
(* [id, name, data]; drive.log has one entry per upload made: the method,  *)
(* the name, what the method reported (a file id, "None" or "raised"),     *)
(* whether the data reached the folder and how many files the folder held  *)
(* afterwards.  The data of an upload is its number in the log.  Each call *)
(* of the Drive API may fail with HttpError.                               *)
(***************************************************************************)
DriveNames == {"activities.json", "meta.json"}

\* The files of the folder that files().list(q=...) matches.
Matches(files, name) == {f \in files : f.name = name}

\* files().update(fileId=id, media_body=media): the content is replaced.
Updated(files, id, data) ==
  {IF f.id = id THEN [f EXCEPT !.data = data] ELSE f : f \in files}

\* The id Drive gives to its next new file.
FileId(next) == "f" \o ToString(next)

\* files().create(body=file_metadata, media_body=media): a new file with a
\* new id, whatever the folder holds.
Created(files, id, name, data) == files \cup {[id |-> id, name |-> name, data |-> data]}

LogEntry(method, name, result, written, files) ==
  [method |-> method, name |-> name, result |-> result, written |-> written,
   nfiles |-> Cardinality(files)]

\* The folder and the log after an upload that reported result.
Uploaded(method, name, result, written, files, next) ==
  drive' = [files |-> files, next |-> next,
            log |-> Append(drive.log, LogEntry(method, name, result, written, files))]

\* GoogleDriveSync._find_file: the ids the lookup may return, "None" when
\* nothing matches or the query raised HttpError.
Found(list_ok, found) == IF list_ok /\ found /= {} THEN {f.id : f \in found} ELSE {"None"}

InitDrive ==
  /\ InitMergeIdle
  /\ norm = NotRun
  /\ wellness_raw = <<>>
  /\ wellness = NotRun
  /\ call = NotRun
  /\ run = NotRun
  /\ calc = NotRun
  /\ \E names \in SUBSET DriveNames :
       drive = [files |-> {[id |-> IF n = "meta.json" THEN "f2" ELSE "f1", name |-> n, data |-> 0] :
                             n \in names},
                next |-> 3,
                log |-> <<>>]

\* GoogleDriveSync.upload_file(filepath, subfolder)
UploadFile ==
  /\ drive /= NotRun
  /\ Len(drive.log) < MaxUploads
  /\ \E name \in DriveNames, exists, list_ok, write_ok \in BOOLEAN :
       LET data == Len(drive.log) + 1
       IN  IF ~exists
           THEN Uploaded("upload_file", name, "None", FALSE, drive.files, drive.next)
           ELSE \E existing_id \in Found(list_ok, Matches(drive.files, name)) :
                  IF ~write_ok
                  THEN Uploaded("upload_file", name, "None", FALSE, drive.files, drive.next)
                  ELSE IF existing_id /= "None"
                  THEN Uploaded("upload_file", name, existing_id, TRUE,
                                Updated(drive.files, existing_id, data), drive.next)
                  ELSE Uploaded("upload_file", name, FileId(drive.next), TRUE,
                                Created(drive.files, FileId(drive.next), name, data),
                                drive.next + 1)
  /\ UNCHANGED <<merge_vars, norm, wellness_raw, wellness, call, run, calc>>

\* GoogleDriveStorage.upload_json(data, filename, folder_type): the query
\* is outside the try, so that its HttpError leaves the method as the one
\* of update and create does.
UploadJson ==
  /\ drive /= NotRun
  /\ Len(drive.log) < MaxUploads
  /\ \E name \in DriveNames, list_ok, write_ok \in BOOLEAN :
       LET data == Len(drive.log) + 1
           existing_files == Matches(drive.files, name)
       IN  IF ~list_ok \/ ~write_ok
           THEN Uploaded("upload_json", name, "raised", FALSE, drive.files, drive.next)
           ELSE IF existing_files /= {}
           THEN \E f \in existing_files :
                  Uploaded("upload_json", name, f.id, TRUE,
                           Updated(drive.files, f.id, data), drive.next)
           ELSE Uploaded("upload_json", name, FileId(drive.next), TRUE,
                         Created(drive.files, FileId(drive.next), name, data),
                         drive.next + 1)
  /\ UNCHANGED <<merge_vars, norm, wellness_raw, wellness, call, run, calc>>

NextDrive == UploadFile \/ UploadJson

SpecDrive == InitDrive /\ [][NextDrive]_vars

\* C21: after any sequence of uploads into a folder that started without
\* duplicates the folder holds at most one file per name; an upload of the
\* name of the upload before it leaves as many files as that one did; and
\* each upload reports a file id exactly when its data reached the folder.
C21_IdempotentOverwrite ==
  /\ \A f, g \in drive.files : f.name = g.name => f.id = g.id
  /\ \A k \in 2..Len(drive.log) :
       (drive.log[k].name = drive.log[k - 1].name
          /\ drive.log[k].written /\ drive.log[k - 1].written)
         => drive.log[k].nfiles = drive.log[k - 1].nfiles
  /\ \A k \in 1..Len(drive.log) :
       drive.log[k].written <=> drive.log[k].result \notin {"None", "raised"}

(***************************************************************************)
(* Year-to-date totals and the type tables of the aggregators.             *)
(***************************************************************************)
\* The date of the activity is a calendar date of the current year.
ClaimInYear(a) == Len(a.date) = 10 /\ ParseInt(Take(a.date, 4)) = today.y

\* The disciplines of the year-to-date summary.
ClaimDiscipline(t) ==
  CASE t \in {"Ride", "VirtualRide"} -> "cycling"
    [] t \in {"Run", "VirtualRun"} -> "running"
    [] t = "Rowing" -> "rowing"
    [] OTHER -> "none"

ThisYear == {k \in Indices(activities) : ClaimInYear(activities[k])}

ThisYearOf(d) == {k \in ThisYear : ClaimDiscipline(activities[k].type) = d}

\* C22: calc_ytd counts exactly the activities of the current year, overall
\* and per discipline; an activity of another year or without a date adds
\* to no count and to no TSS total; the three discipline counts together
\* are at most total.count.
C22_YtdCountsCurrentYear ==
  ytd.st = "ok" =>
    /\ ytd.val.total.count = Cardinality(ThisYear)
    /\ ytd.val.total.tss = SumTss(activities, ThisYear)
    /\ \A d \in {"cycling", "running", "rowing"} :
         /\ ytd.val[d].count = Cardinality(ThisYearOf(d))
         /\ ytd.val[d].tss = SumTss(activities, ThisYearOf(d))
    /\ ytd.val.cycling.count + ytd.val.running.count + ytd.val.rowing.count
         <= ytd.val.total.count

\* A run of this year, a run of last year and nothing else: one activity
\* is counted, as running.
C22_Witness ==
  /\ ytd.st = "ok"
  /\ Len(activities) = 2
  /\ Cardinality(ThisYear) = 1
  /\ \E k \in Indices(activities) : Take(activities[k].date, 4) = Digits(today.y - 1)
  /\ ytd.val.total.count = 1 /\ ytd.val.running.count = 1

\* The discipline, under its year-to-date name, of the bucket of a weekly
\* row that holds TSS.
ClaimRowDiscipline(row) ==
  CASE row.ride > 0 -> "cycling"
    [] row.run > 0 -> "running"
    [] row.row > 0 -> "rowing"
    [] OTHER -> "none"

\* C27: the aggregators classify by one table: when the merged collection
\* is a single activity of this year with a positive TSS, calc_ytd counts
\* it in the discipline of the weekly bucket that took its TSS, and in none
\* of the three when that bucket is other.
C27_OneClassificationTable ==
  (weekly.st = "ok" /\ ytd.st = "ok" /\ Len(activities) = 1 /\ ThisYear = {1}
     /\ activities[1].tss > 0 /\ Len(weekly.rows) = 1)
    => \A e \in {"cycling", "running", "rowing"} :
         ytd.val[e].count = IF e = ClaimRowDiscipline(weekly.rows[1]) THEN 1 ELSE 0

(***************************************************************************)
(* Records without a date in what merge_activities returns.                *)
(***************************************************************************)
\* A date as the sources print it: ten characters, YYYY-MM-DD.
ClaimDated(a) == Len(a.date) = 10

\* C25: in the returned sequence every record has a ten-character date or
\* the date '', and every record with the date '' comes after every record
\* with a ten-character date, whichever source it came from.
C25_UndatedLast ==
  merged = "ok" =>
    /\ \A k \in 1..Len(activities) :
         ClaimDated(activities[k]) \/ activities[k].date = <<>>
    /\ \A j, k \in 1..Len(activities) :
         (ClaimDated(activities[j]) /\ activities[k].date = <<>>) => j < k

(***************************************************************************)
(* The heart rate of a rowing record (specification SpecNorm).             *)
(***************************************************************************)
\* The average and the maximum the claim names for a heart-rate entry.
ClaimHeartRate(hr) ==
  IF hr = HrAbsent THEN <<Null, Null>>
  ELSE IF hr.shape = "number" THEN <<hr.value, Null>>
  ELSE <<hr.average, hr.max>>

\* C26: a rowing record that is otherwise normalisable is normalised
\* whatever the shape of its heart rate, by process_concept2_activity and
\* by standardize_workout alike: an object {average, max} gives
\* avg_hr = average and max_hr = max, a bare number gives avg_hr = the
\* number and max_hr = null, an absent entry gives both null.
C26_BothHeartRateShapes ==
  norm.src = "concept2" =>
    /\ (norm.out /= NotRun /\ norm.raw.time \notin {Null, 0} /\ norm.raw.distance /= Null) =>
         /\ ~IsNone(norm.out.act)
         /\ <<norm.out.act.avg_hr, norm.out.act.max_hr>> = ClaimHeartRate(norm.raw.heart_rate)
    /\ (norm.std /= NotRun /\ norm.raw.time /= Null /\ norm.raw.distance /= Null) =>
         /\ norm.std.st = "ok"
         /\ <<norm.std.act.avg_heart_rate, norm.std.act.max_heart_rate>> =
              ClaimHeartRate(norm.raw.heart_rate)

(***************************************************************************)
(* The pure functions on their own (specification SpecCalc): deduplicate,  *)
(* the personal-best estimate and the critical-power model.  calc holds    *)
(* the function, its arguments and what it returned.                       *)
(***************************************************************************)
MaxItems == 3

\* Items for deduplicate: ids that are strings, an id that is the number 1
\* (str gives '1', the same as the string id '1'), the empty id and no id.
DedupItems ==
  {[id |-> "1", n |-> 1], [id |-> "1", n |-> 2], [int_id |-> 1, n |-> 3],
   [id |-> "i2", n |-> 4], [id |-> "", n |-> 5], [n |-> 6]}

InitDedup ==
  \E items \in SeqsUpTo(DedupItems, MaxItems) :
    calc = [fn |-> "deduplicate", items |-> items, out |-> NotRun, again |-> NotRun]

\* out = deduplicate(items)
DeduplicateItems ==
  /\ calc.fn = "deduplicate"
  /\ calc.out = NotRun
  /\ calc' = [calc EXCEPT !.out = [st |-> "ok", items |-> deduplicate(calc.items)]]
  /\ UNCHANGED <<merge_vars, wellness_raw, wellness, norm, call, run, drive>>

\* again = deduplicate(out)
DeduplicateAgain ==
  /\ calc.fn = "deduplicate"
  /\ calc.out /= NotRun
  /\ calc.again = NotRun
  /\ calc' = [calc EXCEPT !.again = [st |-> "ok", items |-> deduplicate(calc.out.items)]]
  /\ UNCHANGED <<merge_vars, wellness_raw, wellness, norm, call, run, drive>>

\* The personal-best estimate of the specification's aggregators section.
\* Running-like activity types.
RunningLike == {"Run", "VirtualRun"}

\* The default tolerance, 0.15.
DefaultTolerance == Frac(15, 100)

\* f <= g for fractions with positive denominators.
FracLeq(f, g) == f.num * g.den <= g.num * f.den

\* The activity is a candidate: running-like, its distance within
\* target_distance * tolerance of the target, and a positive average speed.
PbCandidateAnyDistance(a, target_distance, tolerance) ==
  /\ a.type \in RunningLike
  /\ a.avg_speed /= NoneNum
  /\ a.avg_speed.num > 0

PbCandidate(a, target_distance, tolerance) ==
  /\ a.type \in RunningLike
  /\ LET off == IF a.distance >= target_distance THEN a.distance - target_distance
                ELSE target_distance - a.distance
     IN  off * tolerance.den <= target_distance * tolerance.num
  /\ a.avg_speed /= NoneNum
  /\ a.avg_speed.num > 0

RECURSIVE PbFrom(_, _, _, _)
\* The least target_distance / avg_speed over the candidates of acts,
\* starting from best.
PbFrom(acts, target_distance, tolerance, best) ==
  IF acts = <<>> THEN best
  ELSE LET a == Head(acts)
           estimate == DivByFrac(target_distance, a.avg_speed)
       IN  IF ~PbCandidate(a, target_distance, tolerance)
           THEN PbFrom(Tail(acts), target_distance, tolerance, best)
           ELSE IF best = NoneNum \/ ~FracLeq(best, estimate)
           THEN PbFrom(Tail(acts), target_distance, tolerance, estimate)
           ELSE PbFrom(Tail(acts), target_distance, tolerance, best)

calculate_pb(acts, target_distance, tolerance) ==
  PbFrom(acts, target_distance, tolerance, NoneNum)

MaxPb == 2

\* Activities around 5000 m: on the edge of the tolerance (4250 m), just
\* outside it (4200 m), at 10000 m, with no, zero and positive speed.
PbActivities ==
  {[type |-> t, distance |-> d, avg_speed |-> s] :
     t \in {"Run", "Ride"}, d \in {5100, 4250, 4200, 10000},
     s \in {NoneNum, Frac(0, 1), Frac(3, 1), Frac(10, 3)}}

InitPb ==
  \E acts \in SeqsUpTo(PbActivities, MaxPb), target \in {5000, 10000} :
    calc = [fn |-> "calculate_pb", activities |-> acts,
            target_distance |-> target, out |-> NotRun]

\* out = calculate_pb(activities, target_distance)
CalculatePb ==
  /\ calc.fn = "calculate_pb"
  /\ calc.out = NotRun
  /\ calc' = [calc EXCEPT !.out =
                [st |-> "ok",
                 pb |-> calculate_pb(calc.activities, calc.target_distance, DefaultTolerance)]]
  /\ UNCHANGED <<merge_vars, wellness_raw, wellness, norm, call, run, drive>>

\* The critical-power model of the specification's aggregators section.
\* The durations of the two samples, in seconds.
T1 == 300

T2 == 1200

\* n / d in lowest terms for d /= 0, with the sign in the numerator.
Ratio(n, d) ==
  LET sn == IF d < 0 THEN -n ELSE n
      sd == IF d < 0 THEN -d ELSE d
  IN  IF sn < 0 THEN [num |-> -(Frac(-sn, sd).num), den |-> Frac(-sn, sd).den]
      ELSE Frac(sn, sd)

\* W' = (P1 - P2) * t1 * t2 / (t1 - t2), the denominator's sign reversed.
WPrimeReversed(p1, p2) == Ratio((p1 - p2) * T1 * T2, T1 - T2)

\* W' = (P1 - P2) * t1 * t2 / (t2 - t1)
WPrime(p1, p2) == Ratio((p1 - p2) * T1 * T2, T2 - T1)

\* CP = (P1 * t1 - P2 * t2) / (t1 - t2)
CriticalPowerOf(p1, p2) == Ratio(p1 * T1 - p2 * T2, T1 - T2)

\* The zero result that stands for insufficient data.
InsufficientData == [cp |-> Frac(0, 1), w_prime |-> Frac(0, 1), derived |-> FALSE]

critical_power(power_5min, power_20min) ==
  IF power_5min = 0 \/ power_20min = 0 THEN InsufficientData
  ELSE [cp |-> CriticalPowerOf(power_5min, power_20min),
        w_prime |-> WPrime(power_5min, power_20min),
        derived |-> TRUE]

\* Five-minute and twenty-minute powers in watts, 0 for a missing sample.
Powers == {0, 200, 250, 300, 1000}

InitCp ==
  \E p1 \in Powers, p2 \in Powers :
    calc = [fn |-> "critical_power", power_5min |-> p1, power_20min |-> p2,
            out |-> NotRun]

\* out = critical_power(power_5min, power_20min)
CriticalPower ==
  /\ calc.fn = "critical_power"
  /\ calc.out = NotRun
  /\ calc' = [calc EXCEPT !.out =
                [st |-> "ok", model |-> critical_power(calc.power_5min, calc.power_20min)]]
  /\ UNCHANGED <<merge_vars, wellness_raw, wellness, norm, call, run, drive>>

InitCalc ==
  /\ InitMergeIdle
  /\ norm = NotRun
  /\ wellness_raw = <<>>
  /\ wellness = NotRun
  /\ call = NotRun
  /\ run = NotRun
  /\ drive = NotRun
  /\ (InitDedup \/ InitPb \/ InitCp)

NextCalc == DeduplicateItems \/ DeduplicateAgain \/ CalculatePb \/ CriticalPower

SpecCalc == InitCalc /\ [][NextCalc]_vars

\* The key of an item as the claim has it: the id printed as a string, the
\* empty string for an item without an id.
ClaimKey(item) ==
  IF "id" \in DOMAIN item THEN item.id
  ELSE IF "int_id" \in DOMAIN item THEN ToString(item.int_id)
  ELSE ""

\* The indices of the first occurrence of each key in items.
ClaimFirsts(items) ==
  {k \in 1..Len(items) : \A j \in 1..(k - 1) : ClaimKey(items[j]) /= ClaimKey(items[k])}

\* The m-th smallest element of the set of numbers I.
ClaimNth(I, m) == CHOOSE k \in I : Cardinality({j \in I : j <= k}) = m

\* C28: deduplicate(items) is the subsequence of the first occurrence of
\* each id in input order, has no two items with the same id, and
\* deduplicating it again changes nothing.
C28_DeduplicateFirstOccurrences ==
  (calc /= NotRun /\ calc.fn = "deduplicate" /\ calc.out /= NotRun) =>
    LET items == calc.items
        out == calc.out.items
    IN  /\ Len(out) = Cardinality(ClaimFirsts(items))
        /\ \A m \in 1..Len(out) : out[m] = items[ClaimNth(ClaimFirsts(items), m)]
        /\ \A j, k \in 1..Len(out) : ClaimKey(out[j]) = ClaimKey(out[k]) => j = k
        /\ calc.again /= NotRun => calc.again.items = out

\* C28 witness: three items of which one repeats an earlier id were
\* deduplicated to two, and deduplicated again.
C28_Witness ==
  /\ calc /= NotRun
  /\ calc.fn = "deduplicate"
  /\ calc.again /= NotRun
  /\ Len(calc.items) = 3
  /\ Len(calc.out.items) = 2
  /\ ClaimKey(calc.items[1]) = ClaimKey(calc.items[3])
  /\ calc.items[1] /= calc.items[3]

\* The activity qualifies for the target under the default tolerance 0.15.
ClaimQualifies(a, target) ==
  /\ a.type \in {"Run", "VirtualRun"}
  /\ 100 * a.distance >= 85 * target
  /\ 100 * a.distance <= 115 * target
  /\ a.avg_speed /= NoneNum
  /\ a.avg_speed.num > 0

\* C23: the personal best is null when no activity qualifies; otherwise it
\* is target / avg_speed of one qualifying activity and no qualifying
\* activity gives a smaller estimate.
C23_PersonalBestIsMinimum ==
  (calc /= NotRun /\ calc.fn = "calculate_pb" /\ calc.out /= NotRun) =>
    LET acts == calc.activities
        target == calc.target_distance
        pb == calc.out.pb
        Q == {k \in 1..Len(acts) : ClaimQualifies(acts[k], target)}
    IN  /\ (Q = {}) <=> (pb = NoneNum)
        /\ Q /= {} =>
             /\ \E k \in Q : pb.num * acts[k].avg_speed.num = target * acts[k].avg_speed.den * pb.den
             /\ \A k \in Q : pb.num * acts[k].avg_speed.num <= target * acts[k].avg_speed.den * pb.den

\* C23 witness: a run of 5100 m at 3.0 m/s beside a run of 4200 m, outside
\* the tolerance, at a higher speed gives 5000 / 3 s for 5000 m.
C23_Witness ==
  /\ calc /= NotRun
  /\ calc.fn = "calculate_pb"
  /\ calc.out /= NotRun
  /\ calc.target_distance = 5000
  /\ calc.activities = <<[type |-> "Run", distance |-> 5100, avg_speed |-> Frac(3, 1)],
                         [type |-> "Run", distance |-> 4200, avg_speed |-> Frac(10, 3)]>>
  /\ calc.out.pb = [num |-> 5000, den |-> 3]

\* C24: with both samples present CP * (t1 - t2) = P1 * t1 - P2 * t2 and
\* W' * (t2 - t1) = (P1 - P2) * t1 * t2 for t1 = 300 and t2 = 1200; with a
\* zero sample the result is the zero value and nothing is derived.
C24_CriticalPowerClosedForm ==
  (calc /= NotRun /\ calc.fn = "critical_power" /\ calc.out /= NotRun) =>
    LET p1 == calc.power_5min
        p2 == calc.power_20min
        m == calc.out.model
    IN  IF p1 = 0 \/ p2 = 0
        THEN ~m.derived /\ m.cp.num = 0 /\ m.w_prime.num = 0
        ELSE /\ m.derived
             /\ m.cp.den > 0
             /\ m.w_prime.den > 0
             /\ m.cp.num * (300 - 1200) = (p1 * 300 - p2 * 1200) * m.cp.den
             /\ m.w_prime.num * (1200 - 300) = (p1 - p2) * 300 * 1200 * m.w_prime.den

\* C24 witness: 300 W over five minutes and 250 W over twenty give
\* CP = 700/3 W (233.3) and W' = 20000 J.
C24_Witness ==
  /\ calc /= NotRun
  /\ calc.fn = "critical_power"
  /\ calc.out /= NotRun
  /\ calc.power_5min = 300
  /\ calc.power_20min = 250
  /\ calc.out.model.cp = [num |-> 700, den |-> 3]
  /\ calc.out.model.w_prime = [num |-> 20000, den |-> 1]

(***************************************************************************)
(* StravaClient.get_activities page by page (specification SpecPages).     *)
(* The server is a list of MaxPages pages; a page is the script of replies *)
(* to the GETs of its request and the number of records of its body.  The  *)
(* call returns [st, acts, requested]: st is "returned", or "unfinished"   *)
(* when every page of the list was full and the loop goes on to the next.  *)
(***************************************************************************)
MaxPages == 3

\* 'per_page': 100 and len(data) < 100
PerPage == 100

\* The records of page number page with n records.
PageBody(page, n) == [k \in 1..n |-> <<page, k>>]

\* Reply scripts of one page request: answered at once, answered after a
\* transport error, never answered, rate-limited throughout.
PageScripts ==
  {[k \in 1..MaxAttempts |-> "200"],
   [k \in 1..MaxAttempts |-> IF k = 1 THEN "timeout" ELSE "200"],
   [k \in 1..MaxAttempts |-> "timeout"],
   [k \in 1..MaxAttempts |-> "429"]}

Pages == [script : PageScripts, n : {0, PerPage - 1, PerPage}]

\* data = self._get('athlete/activities', {..., 'page': page}): the body
\* when _get returned it, None otherwise.
StravaPageData(server, page) ==
  IF StravaGet(server[page].script).st = "returned"
  THEN [none |-> FALSE, recs |-> PageBody(page, server[page].n)]
  ELSE [none |-> TRUE, recs |-> <<>>]

\* A loop that takes no page for the last one.
StravaLastPageNever(data) == FALSE

\* len(data) < 100
StravaLastPage(data) == Len(data.recs) < PerPage

RECURSIVE StravaPagesFrom(_, _, _, _)
\* The while loop of get_activities from the request of page on.
StravaPagesFrom(server, page, all_acts, requested) ==
  IF page > Len(server)
  THEN [st |-> "unfinished", acts |-> all_acts, requested |-> requested]
  ELSE LET data == StravaPageData(server, page)
           asked == Append(requested, page)
       IN  IF data.none \/ data.recs = <<>>
           THEN [st |-> "returned", acts |-> all_acts, requested |-> asked]
           ELSE IF StravaLastPage(data)
           THEN [st |-> "returned", acts |-> all_acts \o data.recs, requested |-> asked]
           ELSE StravaPagesFrom(server, page + 1, all_acts \o data.recs, asked)

\* StravaClient.get_activities(after_timestamp)
StravaActivities(server) == StravaPagesFrom(server, 1, <<>>, <<>>)

InitPages ==
  /\ InitMergeIdle
  /\ InitAux
  /\ norm = NotRun
  /\ wellness_raw = <<>>
  /\ wellness = NotRun
  /\ run = NotRun
  /\ \E server \in [1..MaxPages -> Pages] :
       call = [op |-> "StravaClient.get_activities", server |-> server, out |-> NotRun]

StravaClientGetActivities ==
  /\ call.op = "StravaClient.get_activities"
  /\ call.out = NotRun
  /\ call' = [call EXCEPT !.out = StravaActivities(call.server)]
  /\ UNCHANGED <<merge_vars, norm, wellness_raw, wellness, run, aux>>

NextPages == StravaClientGetActivities

SpecPages == InitPages /\ [][NextPages]_vars

\* The request of the page got no data: none of its three GETs was answered
\* with 200.
ClaimPageFailed(p) == \A k \in 1..3 : p.script[k] /= "200"

\* The page ends the fetch: failed, empty, or fewer than 100 records.
ClaimPageStops(p) == ClaimPageFailed(p) \/ p.n < 100

\* The records a page contributes.
ClaimPageRecords(server, k) ==
  IF ClaimPageFailed(server[k]) THEN <<>> ELSE [i \in 1..server[k].n |-> <<k, i>>]

RECURSIVE ClaimConcat(_, _)
\* The records of the pages 1..last in page order.
ClaimConcat(server, last) ==
  IF last = 0 THEN <<>>
  ELSE ClaimConcat(server, last - 1) \o ClaimPageRecords(server, last)

\* C29: the pages are requested in order 1, 2, 3, ... up to and including
\* the first page that is failed, empty or short; the call then returns the
\* records of the pages fetched, in page order, and it does so whenever the
\* server has such a page; it goes on only while every page was full.
C29_PagesUntilShortPage ==
  (call /= NotRun /\ call.op = "StravaClient.get_activities" /\ call.out /= NotRun) =>
    LET server == call.server
        stops == {k \in 1..Len(server) : ClaimPageStops(server[k])}
        first == CHOOSE k \in stops : \A j \in stops : k <= j
    IN  /\ call.out.st \in {"returned", "unfinished"}
        /\ (call.out.st = "unfinished") <=> (stops = {})
        /\ stops /= {} =>
             /\ call.out.requested = [k \in 1..first |-> k]
             /\ call.out.acts = ClaimConcat(server, first)
        /\ stops = {} =>
             /\ call.out.requested = [k \in 1..Len(server) |-> k]
             /\ call.out.acts = ClaimConcat(server, Len(server))

\* C29 witness: a full page, then a short page, then a page that is never
\* requested; the call returned the 199 records of the first two pages.
C29_Witness ==
  /\ call /= NotRun
  /\ call.op = "StravaClient.get_activities"
  /\ call.out /= NotRun
  /\ call.out.st = "returned"
  /\ call.out.requested = <<1, 2>>
  /\ Len(call.out.acts) = 199
  /\ call.out.acts[101] = <<2, 1>>
  /\ ~ClaimPageFailed(call.server[3])
  /\ call.server[3].n = 100

\* C29 witness of a failed page: the second page got no data and the call
\* returned the 100 records of the first.
C29_FailedPageWitness ==
  /\ call /= NotRun
  /\ call.op = "StravaClient.get_activities"
  /\ call.out /= NotRun
  /\ call.out.st = "returned"
  /\ call.out.requested = <<1, 2>>
  /\ ClaimPageFailed(call.server[2])
  /\ Len(call.out.acts) = 100

(***************************************************************************)
(* The token check of the Concept2 clients (specification SpecToken).      *)
(* access_token says whether the client holds a token, expired whether     *)
(* datetime.now() has reached token_expiry, auth_ok whether the server     *)
(* accepts the credentials when authenticate is called.                    *)
(***************************************************************************)
\* A check that looks at the token's presence only.
NeedsAuthNoExpiry(access_token, expired) == ~access_token

\* not self.access_token or datetime.now() >= self.token_expiry
NeedsAuth(access_token, expired) == ~access_token \/ expired

InitToken ==
  /\ InitMergeIdle
  /\ InitAux
  /\ norm = NotRun
  /\ wellness_raw = <<>>
  /\ wellness = NotRun
  /\ run = NotRun
  /\ \E op \in UsesToken, script \in Scripts, access_token, expired, auth_ok \in BOOLEAN :
       /\ ~access_token => ~expired
       /\ call = [op |-> op, script |-> script, access_token |-> access_token,
                  expired |-> expired, auth_ok |-> auth_ok, out |-> NotRun]

\* Concept2Client._get(endpoint, params) from the token check on.
Concept2ClientCheckedGet ==
  Requested("Concept2Client._get",
            Concept2Get(~NeedsAuth(call.access_token, call.expired), call.auth_ok,
                        call.script))

\* Concept2Connector._make_request(endpoint, params) from
\* _ensure_authenticated on.
Concept2ConnectorCheckedRequest ==
  Requested("Concept2Connector._make_request",
            C2MakeRequest(~NeedsAuth(call.access_token, call.expired), call.auth_ok,
                          call.script, 0))

NextToken == Concept2ClientCheckedGet \/ Concept2ConnectorCheckedRequest

SpecToken == InitToken /\ [][NextToken]_vars

\* The client held a token that had not expired when the call checked it.
ClaimTokenValid == call.access_token /\ ~call.expired

\* C30: a GET is sent only when the token was present and unexpired at the
\* check or the authentication the check started succeeded; otherwise no
\* GET is sent, Concept2Client._get returns None and the connector raises
\* from _ensure_authenticated; in every other case the GET is sent.
C30_NoGetWithoutCheckedToken ==
  call.out /= NotRun =>
    /\ call.out.attempts > 0 => (ClaimTokenValid \/ call.auth_ok)
    /\ (~ClaimTokenValid /\ ~call.auth_ok) =>
         /\ call.out.attempts = 0
         /\ call.op = "Concept2Client._get" => call.out.st = "none"
         /\ call.op = "Concept2Connector._make_request" =>
              (call.out.st = "raised" /\ call.out.exc = "Exception")
    /\ (ClaimTokenValid \/ call.auth_ok) => call.out.attempts >= 1

\* C30 witness: the token had expired, the authentication succeeded and
\* the GET was sent and answered.
C30_Witness ==
  /\ call.out /= NotRun
  /\ call.access_token
  /\ call.expired
  /\ call.auth_ok
  /\ call.out.st = "returned"
  /\ call.out.attempts = 1

\* C30 witness of the refusal: the token had expired, the authentication
\* failed and no GET was sent.
C30_RefusedWitness ==
  /\ call.out /= NotRun
  /\ call.access_token
  /\ call.expired
  /\ ~call.auth_ok
  /\ call.out.attempts = 0

====
